---------------------------- MODULE Spec2Model ----------------------------
(***************************************************************************)
(* Model of the PDB knowledge-graph downloader (final_project/pdb_kg).     *)
(*                                                                         *)
(* DownloadManager: the gated download task (_safe_download: semaphore,    *)
(* rate limiting loop, the retried fetch coroutine), the three result      *)
(* streams (entries in batches, protein entities, cofactors) and           *)
(* __await_concurrently, which hands finished tasks to the consumer.       *)
(*                                                                         *)
(* Time is counted in ticks of the wall clock read by time.time().  The    *)
(* event loop is cooperative: one action is the code between two awaits.   *)
(*                                                                         *)
(* graph_db: the Cypher serializer _to_cypher, update_node (MERGE ... SET) *)
(* and create_relationship (MATCH ... CREATE) against a store of labelled  *)
(* nodes and typed edges.  Strings are sequences of characters.            *)
(*                                                                         *)
(* download_kg.form_kg: the ingestion loop over entries, their proteins    *)
(* and the nodes a protein refers to, with its sets of added keys.  Here   *)
(* a stream of the download manager is what it is to its consumer: each    *)
(* fetched result once, in any order, a 404 dropped, any other failure     *)
(* raised.                                                                 *)
(*                                                                         *)
(* graph_db read queries: get_neighbors, get_annotated and get_path over   *)
(* the same store, with convert_node on what the driver returns.           *)
(*                                                                         *)
(* The process-wide resources: get_driver, called from worker threads, and *)
(* get_session, a coroutine of the event loop; the backoff of the retried  *)
(* fetch.                                                                  *)
(*                                                                         *)
(* download_kg.main on the event loop: which thread a store call runs on,  *)
(* and whether download tasks can run meanwhile.                           *)
(*                                                                         *)
(* download_tasks.get_entry: the parsing of an entry response.             *)
(*                                                                         *)
(* download_kg.main as a command: the clear flag, the indices and the call *)
(* of form_kg, which raises TypeError at download_entries(start_at=...).   *)
(* The sections on form_kg describe the body of its loop for a stream that *)
(* hands out entries; one of them runs form_kg several times on one store. *)
(*                                                                         *)
(* The download manager under a fair event loop, for progress.             *)
(***************************************************************************)
EXTENDS Integers, Sequences, FiniteSets, Bags, TLC

(***************************************************************************)
(* Bounds of the model.                                                    *)
(***************************************************************************)
\* Largest max_length a path query is given.
MaxLength == 3

\* Longest string given to the serializer.
MaxChars == 2

\* Worker threads that run store calls at the same time.
MaxThreads == 2

\* Download tasks that fetch at the same time.
MaxTasks == 2

\* Longest list of citations in an entry response.
MaxCitations == 2

\* Runs of form_kg on one store.
MaxRuns == 2

\* Store calls form_kg makes while download tasks are ready.
MaxCalls == 2

\* Steps a download task has left.
MaxSteps == 2

\* Longest identifier list handed to a stream.
MaxIds == 3
\* Last tick of the wall clock.
MaxTime == 3
\* DownloadManager._ENTRY_TASK_BATCH_SIZE, scaled down (100 in the source).
ENTRY_TASK_BATCH_SIZE == 1
\* max_concurrent_downloads, a constructor argument (default 10).
max_concurrent_downloads == 2
\* 1.0 / max_requests_per_second in ticks, a constructor argument.
min_request_period == 1
\* Transient failures the remote side produces during one run of Spec.
MaxTransient == 1
\* Longest identifier list of RetrySpec.
MaxRetryIds == 2
\* Nodes the store holds at most before update_node is no longer called.
MaxNodes == 2
\* Edges the store holds at most before create_relationship is no longer called.
MaxEdges == 2

(***************************************************************************)
(* Program constants.                                                      *)
(***************************************************************************)
\* stop=stop_after_attempt(15)
StopAfterAttempt == 15

Ids == 1..MaxIds

\* The three streams of DownloadManager.
StreamKinds == {"entries", "entities", "cofactors"}

\* What one attempt of the wrapped fetch coroutine can end with: a value, or
\* one of the exceptions the remote call and the parsing after it raise.
\* "http404"/"http503" are aiohttp.ClientResponseError with that status;
\* "KeyError" is a mandatory field missing from the response.
AttemptOutcomes ==
    {"value", "TimeoutError", "ClientConnectorError", "ServerDisconnectedError",
     "http404", "http503", "KeyError"}

\* The failures of the remote side that pass with time.
Transient == {"TimeoutError", "ClientConnectorError", "ServerDisconnectedError", "http503"}

VARIABLES
    kind,                \* which stream is being consumed
    ids,                 \* the identifiers the stream is given, in order
    idx,                 \* how many identifiers the stream has taken from ids
    stage,               \* position of the stream generator
    entry_tasks,         \* the list of tasks the stream has built
    ac,                  \* position inside __await_concurrently
    pending,             \* __await_concurrently: tasks still waited for
    done,                \* __await_concurrently: finished tasks not yet visited
    yielded,             \* identifiers whose result reached the consumer, in order
    raised,              \* the exception raised to the consumer, "none" if none
    phase,               \* per task: position inside _safe_download
    result,              \* per task: what the finished task holds
    dispatched,          \* per identifier: how many fetch tasks were created
    download_semaphore,  \* value of the asyncio.Semaphore
    last_download_time,  \* DownloadManager.__last_download_time
    now,                 \* the wall clock
    wake,                \* per task: when its asyncio.sleep ends
    attempt_number,      \* per task: tenacity's attempt counter (attempts started)
    failures,            \* per task: attempts that ended with a retried exception
    transient_left,      \* retryable failures the remote side will still produce
    cofactors,           \* download_cofactors: protein.cofactors
    exclude,             \* download_cofactors: the exclude argument
    nodes,               \* the store: its nodes, in order of creation
    edges,               \* the store: bag of edges between positions of nodes
    last_call,           \* the arguments of the latest update_node call
    last_bound,          \* the nodes the MERGE of that call bound
    pc,                  \* form_kg: where it is
    entries_left,        \* form_kg: entries the entry stream has not handed out
    cur_entry,           \* form_kg: the entry of the outer loop
    prots_left,          \* form_kg: entity ids the entity stream has not handed out
    prot_entity,         \* form_kg: prot_entity, the tuple of the protein loop
    cat,                 \* form_kg: which of the four list loops it is in
    pos,                 \* form_kg: position in that list
    drugs_left,          \* form_kg: cofactors the cofactor stream has not handed out
    cur_drug,            \* form_kg: the drug of the cofactor loop
    targets_left,        \* form_kg: targets of that drug not yet stored
    added,               \* form_kg: the added_* sets, by label
    upsert_calls,        \* update_node calls of the run: bag of [label, id]
    rel_calls,           \* create_relationship calls of the run: bag of [src, dst, type]
    refs,                \* [prot, label, id]: the protein refers to that node
    reply,               \* the latest read query of the store and its answer
    values,              \* the values given to _to_cypher
    literals,            \* what _to_cypher has returned for them
    g_driver,            \* neo4j_driver._g_driver: 0 is None, else the Driver created as that one
    drivers_created,     \* how many times GraphDatabase.driver was called
    worker,              \* per worker thread: where it is in get_driver, what it got
    g_session,           \* aiohttp_session._g_session: 0 is None, else the ClientSession
    sessions_created,    \* how many times aiohttp.ClientSession was called
    fetcher,             \* per download task: where it is in _get_json, its session
    store_call,          \* the store call of form_kg in progress, and the thread it runs on
    calls_left,          \* store calls form_kg will still make
    fetch_steps,         \* per download task of form_kg: the steps the event loop has run of it
    overlapped,          \* the store calls during which the loop ran a download task
    entry_json,          \* get_entry: the response it parses
    entry_node,          \* get_entry: what it has returned or raised
    cli_args,            \* main: the parsed command line
    main_pc,             \* main: where it is
    store_log,           \* main: the statements the run has sent to the store, in order
    runs                 \* how many runs of form_kg were started on the store

vars ==
    <<kind, ids, idx, stage, entry_tasks, ac, pending, done, yielded, raised,
      phase, result, dispatched, download_semaphore, last_download_time, now,
      wake, attempt_number, failures, transient_left, cofactors, exclude,
      nodes, edges, last_call, last_bound, pc, entries_left, cur_entry,
      prots_left, prot_entity, cat, pos, drugs_left, cur_drug, targets_left, added, upsert_calls,
      rel_calls, refs, reply, values, literals, g_driver, drivers_created,
      worker, g_session, sessions_created, fetcher, store_call, calls_left,
      fetch_steps, overlapped, entry_json, entry_node, cli_args, main_pc,
      store_log, runs>>

streamVars == <<kind, ids, idx, stage, entry_tasks, ac, pending, done, yielded, raised>>
taskVars == <<phase, result, download_semaphore, last_download_time, wake,
              attempt_number, failures, transient_left>>
\* The read queries, the global driver and session, the event loop and the
\* serializer on its own.
serializerVars == <<values, literals>>
resourceVars == <<g_driver, drivers_created, worker, g_session, sessions_created, fetcher>>
loopVars == <<store_call, calls_left, fetch_steps, overlapped>>
\* The parsing of an entry response, the ingestion command and its reruns.
commandVars == <<entry_json, entry_node, cli_args, main_pc, store_log, runs>>
serviceVars == <<reply, serializerVars, resourceVars, loopVars, commandVars>>
\* What no step of the download manager changes.
restVars ==
    <<cofactors, exclude, nodes, edges, last_call, last_bound, pc, entries_left,
      cur_entry, prots_left, prot_entity, cat, pos, drugs_left, cur_drug,
      targets_left, added,
      upsert_calls, rel_calls, refs, serviceVars>>
\* The download manager as a whole.
managerVars ==
    <<kind, ids, idx, stage, entry_tasks, ac, pending, done, yielded, raised,
      phase, result, dispatched, download_semaphore, last_download_time, now,
      wake, attempt_number, failures, transient_left, cofactors, exclude>>
storeVars == <<nodes, edges, last_call, last_bound>>
\* form_kg and what is recorded of its run.
ingestVars ==
    <<pc, entries_left, cur_entry, prots_left, prot_entity, cat, pos,
      drugs_left, cur_drug, targets_left, added, upsert_calls, rel_calls, refs>>

(***************************************************************************)
(* Helpers.                                                                *)
(***************************************************************************)
Range(s) == {s[i] : i \in 1..Len(s)}

\* The identifiers of S as a list (a Python set is iterated in some order;
\* the order does not matter to a list comprehension that creates every task).
RECURSIVE SetToList(_)
SetToList(S) ==
    IF S = {} THEN <<>>
    ELSE LET m == CHOOSE x \in S : \A y \in S : x <= y
         IN <<m>> \o SetToList(S \ {m})

\* Tasks that hold a token of the semaphore.
Holders == {t \in Ids : phase[t] \in {"rate", "sleep", "request", "backoff"}}

Created == {t \in Ids : phase[t] # "none"}
Finished == {t \in Ids : phase[t] = "done"}

(***************************************************************************)
(* The retry policy _RETRY (tenacity).                                     *)
(***************************************************************************)
\* A predicate that retries every HTTP error status.
RetryPredicate_AnyStatus(e) ==
    \/ e = "TimeoutError"
    \/ e = "ClientConnectorError"
    \/ e = "ServerDisconnectedError"
    \/ e \in {"http404", "http503"}

\* retry=...: which exceptions are retried.
RetryPredicate(e) ==
    \/ e = "TimeoutError"
    \/ e = "ClientConnectorError"
    \/ e = "ServerDisconnectedError"
    \/ (e \in {"http404", "http503"} /\ e # "http404")

\* Stopping one attempt late, and stopping early.
StopPredicate_OneMore(n) == n > StopAfterAttempt

StopPredicate_Early(n) == n >= 5

\* stop=stop_after_attempt(15)
StopPredicate(n) == n >= StopAfterAttempt

\* wait=wait_exponential(multiplier=1, min=1, max=30)
wait_multiplier == 1
wait_min == 1
wait_max == 30

\* A wait that doubles without a cap.
WaitExponential_NoMax(n) ==
    LET Max2(a, b) == IF a >= b THEN a ELSE b
    IN Max2(Max2(0, wait_min), wait_multiplier * 2 ^ (n - 1))

\* tenacity's wait_exponential, called with the number n of the attempt
\* that has just failed: multiplier * exp_base ^ (n - 1) with exp_base 2,
\* clamped to [min, max].
WaitExponential(n) ==
    LET Min2(a, b) == IF a <= b THEN a ELSE b
        Max2(a, b) == IF a >= b THEN a ELSE b
    IN Max2(Max2(0, wait_min), Min2(wait_multiplier * 2 ^ (n - 1), wait_max))

(***************************************************************************)
(* data_model: node objects.  A node object has a label and the fields     *)
(* uuid, entry_id, id and name; every field value is a string.             *)
(***************************************************************************)
Quote == "\""

\* The fields a node object has besides its label.
Fields == {"uuid", "entry_id", "id", "name"}

\* NodeBase and its subclasses: one object.
Node(label, uuid, id, name) ==
    [label |-> label, uuid |-> uuid, entry_id |-> <<"e">>, id |-> id, name |-> name]

\* The objects given to the store on its own.  uuid4 gives every object a
\* uuid of its own and objects are immutable.  The first two share label
\* and natural key and differ in payload, the third has another key and
\* the fourth another label.
NodeObjects ==
    {Node("PROTEIN", <<"u">>, <<"a">>, <<"x">>),
     Node("PROTEIN", <<"v">>, <<"a">>, <<"y">>),
     Node("PROTEIN", <<"w">>, <<"b">>, <<"x">>),
     Node("DRUG", <<"t">>, <<"a">>, <<"x">>)}

\* What create_relationship reads of a node object.
NodeEnds == {[label |-> o.label, uuid |-> o.uuid] : o \in NodeObjects}

\* The key arguments of update_node, normalized to tuples.
Keys == {<<"uuid">>, <<"id">>, <<"entry_id", "id">>}

RelationTypes == {"HAS_PROTEIN", "HAS_COFACTOR"}

\* A property that a stored node does not have.
Absent == <<>>

\* The value of last_call before the first call.
NoCall ==
    [entry |-> [label |-> "none", uuid |-> Absent, entry_id |-> Absent,
                id |-> Absent, name |-> Absent],
     key |-> <<>>]

(***************************************************************************)
(* graph_db._to_cypher.                                                    *)
(***************************************************************************)
\* _to_cypher(str): "Remove quotes in the string", then wrap it in quotes.
ToCypherStr(value) ==
    LET NotQuote(c) == c # Quote
    IN <<Quote>> \o SelectSeq(value, NotQuote) \o <<Quote>>

\* What the database reads a quoted string literal of a query as.
CypherValue(literal) == SubSeq(literal, 2, Len(literal) - 1)

\* _to_cypher(NodeBase, exclude_properties): the map of the fields that
\* value.dict(exclude=exclude_set) keeps, each value converted.  A member
\* of the exclude set is a field name, <<"str", n>>, or a tuple of names,
\* <<"tuple">> \o k.
ToCypherNode(value, exclude_properties) ==
    LET FieldName(n) == <<"str", n>>
        DictFields == {"label"} \cup Fields
        exclude_set == {FieldName("label")} \cup Range(exclude_properties)
        node_attributes == {f \in DictFields : FieldName(f) \notin exclude_set}
    IN [f \in node_attributes |-> ToCypherStr(value[f])]

(***************************************************************************)
(* graph_db._update_entry_transaction.                                     *)
(***************************************************************************)
\* A key value passed to the query as it is on the object.
KeySubstitution_Raw(value) == value

\* key_substitutions[placeholder] = _to_cypher(getattr(entry, attribute))
KeySubstitution(value) == ToCypherStr(value)

KeySubstitutions(entry, key) ==
    [i \in 1..Len(key) |-> KeySubstitution(entry[key[i]])]

\* The map after SET entry += : exclude_properties=(key,)
SetMap(entry, key) == ToCypherNode(entry, <<(<<"tuple">> \o key)>>)

\* MERGE (entry:LABEL {k: $key_0, ...}): the stored nodes the pattern matches.
MergeMatches(store, entry, key) ==
    {i \in 1..Len(store) :
        /\ store[i].label = entry.label
        /\ \A j \in 1..Len(key) :
              store[i].props[key[j]] = KeySubstitutions(entry, key)[j]}

\* The positions MERGE binds entry to.
MergeBound(store, entry, key) ==
    IF MergeMatches(store, entry, key) = {}
    THEN {Len(store) + 1}
    ELSE MergeMatches(store, entry, key)

\* The store after the query of _update_entry_transaction has run.
\* MergeCreated: the node MERGE creates when the pattern matches nothing.
\* SetPlus: SET entry += map, on one node.
UpdateEntryTransaction(store, entry, key) ==
    LET MergeCreated ==
            [label |-> entry.label,
             props |-> [f \in Fields |->
                  IF \E j \in 1..Len(key) : key[j] = f
                  THEN KeySubstitutions(entry, key)[CHOOSE j \in 1..Len(key) : key[j] = f]
                  ELSE Absent]]
        SetPlus(node, map) ==
            [node EXCEPT !.props =
                [f \in Fields |-> IF f \in DOMAIN map THEN CypherValue(map[f]) ELSE @[f]]]
        merged == IF MergeMatches(store, entry, key) = {}
                  THEN Append(store, MergeCreated)
                  ELSE store
    IN [i \in 1..Len(merged) |->
          IF i \in MergeBound(store, entry, key)
          THEN SetPlus(merged[i], SetMap(entry, key))
          ELSE merged[i]]

\* update_node(entry, key)
UpdateNode(entry, key) ==
    /\ nodes' = UpdateEntryTransaction(nodes, entry, key)
    /\ last_call' = [entry |-> entry, key |-> key]
    /\ last_bound' = MergeBound(nodes, entry, key)

(***************************************************************************)
(* graph_db.create_relationship.                                           *)
(***************************************************************************)
\* "... a.uuid = '" + str(e1.uuid) + "' ..."
UuidLiteral(uuid) == <<"'">> \o uuid \o <<"'">>

\* MATCH (a:L1), (b:L2) WHERE a.uuid = '...' AND b.uuid = '...'
MatchNodes(store, e) ==
    LET wanted == CypherValue(UuidLiteral(e.uuid))
    IN {a \in 1..Len(store) :
          /\ store[a].label = e.label
          /\ store[a].props["uuid"] = wanted}

MatchPairs(store, e1, e2) == MatchNodes(store, e1) \X MatchNodes(store, e2)

Edge(a, b, relation) == [src |-> a, dst |-> b, type |-> relation]

\* An edge is added only where there is none of the type yet.
CreateEdges_IfAbsent(store, old, e1, e2, relation) ==
    old (+) SetToBag({e \in {Edge(p[1], p[2], relation) : p \in MatchPairs(store, e1, e2)} :
                        ~BagIn(e, old)})

\* CREATE (a)-[:T]->(b), for every pair of nodes the MATCH found.
CreateEdges(store, old, e1, e2, relation) ==
    old (+) SetToBag({Edge(p[1], p[2], relation) : p \in MatchPairs(store, e1, e2)})

\* create_relationship(e1, e2, relation)
CreateRelationship(e1, e2, relation) ==
    edges' = CreateEdges(nodes, edges, e1, e2, relation)

\* An empty database.
GraphEmpty ==
    /\ nodes = <<>>
    /\ edges = EmptyBag
    /\ last_call = NoCall
    /\ last_bound = {}

(***************************************************************************)
(* download_kg.form_kg: what it is given.  The remote catalog has two      *)
(* entries, each with one protein entity; what a protein refers to is      *)
(* what its response holds when it arrives.  The natural key               *)
(* attribute of every category (scientific_name,                           *)
(* reference_database_accession, id) is the field id of the model.         *)
(***************************************************************************)
\* The four lists of a protein response, in the order form_kg goes through
\* them, and the relationship form_kg creates for each.
ListLabels == <<"HOST_ORGANISM", "SOURCE_ORGANISM", "DATABASE", "ANNOTATION">>
RelationOf ==
    [HOST_ORGANISM |-> "HOST_ON", SOURCE_ORGANISM |-> "SOURCE_FROM",
     DATABASE |-> "REFER_TO", ANNOTATION |-> "HAS_ANNOTATION"]

\* The labels form_kg keeps a set of added keys for.
DedupLabels == Range(ListLabels) \cup {"DRUG"}


NoNode == NoCall.entry

\* EntryNode, as get_entry builds it for the entry e.
EntryNode(e) ==
    [label |-> "ENTRY", uuid |-> <<"ENTRY", e>>, entry_id |-> <<e>>,
     id |-> Absent, name |-> Absent]

\* ProteinNode, as get_protein_entity builds it.
ProteinNode(e, i) ==
    [label |-> "PROTEIN", uuid |-> <<"PROTEIN", e, i>>, entry_id |-> <<e>>,
     id |-> <<i>>, name |-> <<"x">>]

\* The n-th node of a list of the response of the protein p.
ListNode(label, p, n, key) ==
    LET Digits == <<"1", "2", "3">>
    IN [label |-> label, uuid |-> <<label>> \o p.entry_id \o p.id \o <<Digits[n]>>,
        entry_id |-> Absent, id |-> <<key>>, name |-> <<"x">>]

\* DrugNode, as get_drug_entity builds it when fetched for the protein p.
DrugNode(p, d) ==
    [label |-> "DRUG", uuid |-> <<"DRUG">> \o p.entry_id \o p.id \o <<d>>,
     entry_id |-> Absent, id |-> <<d>>, name |-> <<"x">>]

\* DrugbankTarget of that drug.
DrugbankTarget(drug_node) ==
    [label |-> "DRUGBANK_TARGET", uuid |-> <<"DRUGBANK_TARGET">> \o drug_node.uuid,
     entry_id |-> Absent, id |-> Absent, name |-> <<"x">>]

\* ProteinInfoTuple: the protein node, the natural keys of its four lists
\* and its cofactors.
ProteinInfo(e, i, lists, cofs) ==
    [node |-> ProteinNode(e, i), lists |-> lists, cofactors |-> cofs]

NoProt ==
    [node |-> NoNode, lists |-> [l \in Range(ListLabels) |-> <<>>], cofactors |-> {}]

\* form_kg is not running.
NotIngesting ==
    /\ pc = "off"
    /\ entries_left = {}
    /\ cur_entry = NoNode
    /\ prots_left = {}
    /\ prot_entity = NoProt
    /\ cat = 0
    /\ pos = 0
    /\ drugs_left = {}
    /\ cur_drug = NoNode
    /\ targets_left = 0
    /\ added = [l \in DedupLabels |-> {}]
    /\ upsert_calls = EmptyBag
    /\ rel_calls = EmptyBag
    /\ refs = {}

\* No read query has been run.
NoReply == [op |-> "none", args |-> <<>>, result |-> <<>>]

Threads == 1..MaxThreads
Tasks == 1..MaxTasks

\* None, as dict.get gives it for a missing key and argparse for a missing
\* option.  A value is [type, v], as for _to_cypher.
None == [type |-> "NoneType", v |-> 0]

\* What get_entry has returned or raised: nothing yet.
NoEntry == [outcome |-> "none", protein_entity_ids |-> {}, publications |-> <<>>]

\* get_entry has parsed nothing and the ingestion command is not running.
CommandIdle ==
    /\ entry_json = [citation |-> <<>>, rcsb_entry_container_identifiers |-> None]
    /\ entry_node = NoEntry
    /\ cli_args = [clear |-> FALSE, start_from |-> None]
    /\ main_pc = "off"
    /\ store_log = <<>>
    /\ runs = 0

\* Neither global exists and nobody has asked for one.
ResourcesIdle ==
    /\ g_driver = 0
    /\ drivers_created = 0
    /\ worker = [t \in Threads |-> [pc |-> "idle", got |-> 0]]
    /\ g_session = 0
    /\ sessions_created = 0
    /\ fetcher = [t \in Tasks |-> [pc |-> "idle", got |-> 0]]

\* No store call is in progress.
NoStoreOp == [op |-> "none", thread |-> "none"]

\* Nothing else of the program is in use: no read query has been run,
\* _to_cypher has not been called, neither global exists, no store call is
\* made, no download task exists and the command is not running.
ServicesIdle ==
    /\ reply = NoReply
    /\ values = <<>>
    /\ literals = <<>>
    /\ ResourcesIdle
    /\ CommandIdle
    /\ store_call = NoStoreOp
    /\ calls_left = 0
    /\ fetch_steps = <<>>
    /\ overlapped = {}

(***************************************************************************)
(* Initial state: a fresh DownloadManager, a stream not yet started.       *)
(***************************************************************************)
Init ==
    /\ kind \in StreamKinds
    /\ ids \in {[i \in 1..n |-> i] : n \in 0..MaxIds}
    /\ idx = 0
    /\ stage = "collect"
    /\ entry_tasks = <<>>
    /\ ac = "idle"
    /\ pending = {}
    /\ done = {}
    /\ yielded = <<>>
    /\ raised = "none"
    /\ phase = [t \in Ids |-> "none"]
    /\ result = [t \in Ids |-> "none"]
    /\ dispatched = [t \in Ids |-> 0]
    /\ download_semaphore = max_concurrent_downloads
    /\ last_download_time = 0
    /\ now = 0
    /\ wake = [t \in Ids |-> 0]
    /\ attempt_number = [t \in Ids |-> 0]
    /\ failures = [t \in Ids |-> 0]
    /\ transient_left = MaxTransient
    /\ cofactors = Range(ids)
    /\ exclude = {}
    /\ GraphEmpty
    /\ NotIngesting
    /\ ServicesIdle

(***************************************************************************)
(* DownloadManager.__do_download: create the task of one fetch.            *)
(***************************************************************************)
\* The state of the tasks after __do_download was called for every id in S.
DoDownload(S) ==
    /\ phase' = [t \in Ids |-> IF t \in S THEN "acquire" ELSE phase[t]]
    /\ dispatched' = [t \in Ids |-> IF t \in S THEN dispatched[t] + 1 ELSE dispatched[t]]

\* Entering __await_concurrently(tasks).
StartAwait(tasks) ==
    /\ pending' = tasks
    /\ done' = {}
    /\ ac' = IF tasks = {} THEN "end" ELSE "wait"

(***************************************************************************)
(* DownloadManager.__download_entries: one iteration of the async for.     *)
(***************************************************************************)
\* An iteration that creates the task whether or not the batch is full.
DownloadEntriesNext_NoBatch ==
    /\ kind = "entries"
    /\ stage = "collect"
    /\ idx < Len(ids)
    /\ idx' = idx + 1
    /\ entry_tasks' = Append(entry_tasks, ids[idx + 1])
    /\ DoDownload({ids[idx + 1]})
    /\ UNCHANGED <<stage, ac, pending, done>>
    /\ UNCHANGED <<kind, ids, yielded, raised, result, download_semaphore,
                   last_download_time, now, wake, attempt_number, failures,
                   transient_left>>
    /\ UNCHANGED restVars

DownloadEntriesNext ==
    /\ kind = "entries"
    /\ stage = "collect"
    /\ idx < Len(ids)
    /\ idx' = idx + 1
    /\ IF Len(entry_tasks) < ENTRY_TASK_BATCH_SIZE
       THEN /\ entry_tasks' = Append(entry_tasks, ids[idx + 1])
            /\ DoDownload({ids[idx + 1]})
            /\ UNCHANGED <<stage, ac, pending, done>>
       ELSE /\ stage' = "batch"
            /\ StartAwait(Range(entry_tasks))
            /\ UNCHANGED <<entry_tasks, phase, dispatched>>
    /\ UNCHANGED <<kind, ids, yielded, raised, result, download_semaphore,
                   last_download_time, now, wake, attempt_number, failures,
                   transient_left>>
    /\ UNCHANGED restVars

\* The identifiers are exhausted: "Handle any remaining tasks."
DownloadEntriesRemaining ==
    /\ kind = "entries"
    /\ stage = "collect"
    /\ idx = Len(ids)
    /\ stage' = "final"
    /\ StartAwait(Range(entry_tasks))
    /\ UNCHANGED <<kind, ids, idx, entry_tasks, yielded, raised, dispatched, now>>
    /\ UNCHANGED taskVars
    /\ UNCHANGED restVars

(***************************************************************************)
(* __download_protein_entities / __download_cofactors: every task is       *)
(* created by one list comprehension, then awaited.                        *)
(***************************************************************************)
\* A call that fetches every cofactor of the protein.
RemoveExcluded_Ignore(c, e) == c

\* download_cofactors: "Remove any excluded cofactors."
RemoveExcluded(c, e) == c \ e

\* The identifiers the list comprehension goes through: the entity ids of the
\* entry, or the cofactors that download_cofactors has left.
TaskIds ==
    IF kind = "cofactors" THEN SetToList(RemoveExcluded(cofactors, exclude)) ELSE ids

DownloadAll ==
    /\ kind \in {"entities", "cofactors"}
    /\ stage = "collect"
    /\ idx' = Len(ids)
    /\ entry_tasks' = TaskIds
    /\ DoDownload(Range(TaskIds))
    /\ stage' = "final"
    /\ StartAwait(Range(TaskIds))
    /\ UNCHANGED <<kind, ids, yielded, raised, result, download_semaphore,
                   last_download_time, now, wake, attempt_number, failures,
                   transient_left>>
    /\ UNCHANGED restVars

(***************************************************************************)
(* DownloadManager.__await_concurrently.                                   *)
(***************************************************************************)
\* asyncio.wait(pending, return_when=FIRST_EXCEPTION) can return.
WaitReturns ==
    \/ \E t \in pending : t \in Finished /\ result[t] # "value"
    \/ \A t \in pending : t \in Finished

\* A wait that leaves the finished tasks among the pending ones.
AsyncioWait_KeepFinished ==
    /\ ac = "wait"
    /\ WaitReturns
    /\ done' = pending \cap Finished
    /\ pending' = pending
    /\ ac' = "iter"
    /\ UNCHANGED <<kind, ids, idx, stage, entry_tasks, yielded, raised, dispatched, now>>
    /\ UNCHANGED taskVars
    /\ UNCHANGED restVars

\* done, pending = await asyncio.wait(pending, return_when=FIRST_EXCEPTION)

AsyncioWait ==
    /\ ac = "wait"
    /\ WaitReturns
    /\ done' = pending \cap Finished
    /\ pending' = pending \ Finished
    /\ ac' = "iter"
    /\ UNCHANGED <<kind, ids, idx, stage, entry_tasks, yielded, raised, dispatched, now>>
    /\ UNCHANGED taskVars
    /\ UNCHANGED restVars

\* Where the loops of __await_concurrently go once `awaitable` is handled.
AfterVisit(rest) ==
    IF rest # {} THEN "iter" ELSE IF pending # {} THEN "wait" ELSE "end"

\* A test that skips nothing, and one that skips every failure.
IsNotFound_Never(error) == FALSE

IsNotFound_Always(error) == TRUE

\* The 404 test of __await_concurrently.
IsNotFound(error) == error = "http404"

\* for awaitable in done: one iteration, for the task t.
VisitDone(t) ==
    /\ ac = "iter"
    /\ t \in done
    /\ done' = done \ {t}
    /\ IF result[t] # "value" /\ IsNotFound(result[t])
       THEN \* logged and skipped
            /\ ac' = AfterVisit(done')
            /\ UNCHANGED <<yielded, raised, stage>>
       ELSE \* yield awaitable; the stream yields awaitable.result()
            IF result[t] = "value"
            THEN /\ yielded' = Append(yielded, t)
                 /\ ac' = AfterVisit(done')
                 /\ UNCHANGED <<raised, stage>>
            ELSE /\ raised' = result[t]
                 /\ stage' = "raised"
                 /\ ac' = "idle"
                 /\ UNCHANGED yielded
    /\ UNCHANGED <<kind, ids, idx, entry_tasks, pending, dispatched, now>>
    /\ UNCHANGED taskVars
    /\ UNCHANGED restVars

\* __await_concurrently is exhausted: the stream goes on.
AwaitEnd ==
    /\ ac = "end"
    /\ ac' = "idle"
    /\ IF stage = "batch"
       THEN stage' = "collect" /\ entry_tasks' = <<>>
       ELSE stage' = "finished" /\ UNCHANGED entry_tasks
    /\ UNCHANGED <<kind, ids, idx, pending, done, yielded, raised, dispatched, now>>
    /\ UNCHANGED taskVars
    /\ UNCHANGED restVars

(***************************************************************************)
(* DownloadManager.__do_download._safe_download, per task.                 *)
(***************************************************************************)
\* asyncio.Semaphore: a token can be taken.
SemaphoreFree_Unbounded == TRUE

SemaphoreFree == download_semaphore > 0

\* async with self.__download_semaphore: enter
Acquire(t) ==
    /\ phase[t] = "acquire"
    /\ SemaphoreFree
    /\ download_semaphore' = download_semaphore - 1
    /\ phase' = [phase EXCEPT ![t] = "rate"]
    /\ UNCHANGED <<result, last_download_time, wake, attempt_number, failures,
                   transient_left, dispatched, now>>
    /\ UNCHANGED streamVars
    /\ UNCHANGED restVars

\* The rate limiting loop, up to its next await: either it sleeps, or the
\* task records the dispatch time and starts the first attempt of the fetch.
RateLimit(t) ==
    /\ phase[t] = "rate"
    /\ IF now - last_download_time < min_request_period
       THEN /\ phase' = [phase EXCEPT ![t] = "sleep"]
            /\ wake' = [wake EXCEPT ![t] = last_download_time + min_request_period]
            /\ UNCHANGED <<last_download_time, attempt_number>>
       ELSE /\ last_download_time' = now
            /\ phase' = [phase EXCEPT ![t] = "request"]
            /\ attempt_number' = [attempt_number EXCEPT ![t] = 1]
            /\ UNCHANGED wake
    /\ UNCHANGED <<result, download_semaphore, failures, transient_left, dispatched, now>>
    /\ UNCHANGED streamVars
    /\ UNCHANGED restVars

\* A sleep that is not followed by a second look at the clock.
Wake_NoRecheck(t) ==
    /\ phase[t] = "sleep"
    /\ now >= wake[t]
    /\ last_download_time' = now
    /\ phase' = [phase EXCEPT ![t] = "request"]
    /\ attempt_number' = [attempt_number EXCEPT ![t] = 1]
    /\ wake' = [wake EXCEPT ![t] = 0]
    /\ UNCHANGED <<result, download_semaphore, failures, transient_left, dispatched, now>>
    /\ UNCHANGED streamVars
    /\ UNCHANGED restVars

\* await asyncio.sleep(delay_time) returns: back to the loop condition.
Wake(t) ==
    /\ phase[t] = "sleep"
    /\ now >= wake[t]
    /\ phase' = [phase EXCEPT ![t] = "rate"]
    /\ wake' = [wake EXCEPT ![t] = 0]
    /\ UNCHANGED <<result, download_semaphore, last_download_time,
                   attempt_number, failures, transient_left, dispatched, now>>
    /\ UNCHANGED streamVars
    /\ UNCHANGED restVars

\* A release that an exception skips.
Finish_ReleaseOnSuccess(t, r) ==
    /\ phase' = [phase EXCEPT ![t] = "done"]
    /\ result' = [result EXCEPT ![t] = r]
    /\ download_semaphore' = IF r = "value" THEN download_semaphore + 1 ELSE download_semaphore

\* The task ends holding r: the semaphore is released on the way out.
Finish(t, r) ==
    /\ phase' = [phase EXCEPT ![t] = "done"]
    /\ result' = [result EXCEPT ![t] = r]
    /\ download_semaphore' = download_semaphore + 1

\* One attempt of the retried fetch ends with outcome o.
AttemptEnds(t, o) ==
    /\ phase[t] = "request"
    /\ o \in Transient => transient_left > 0
    /\ transient_left' = IF o \in Transient THEN transient_left - 1 ELSE transient_left
    /\ IF o = "value"
       THEN Finish(t, "value") /\ UNCHANGED failures
       ELSE IF ~RetryPredicate(o)
       THEN Finish(t, o) /\ UNCHANGED failures
       ELSE /\ failures' = [failures EXCEPT ![t] = failures[t] + 1]
            /\ IF StopPredicate(attempt_number[t])
               THEN Finish(t, "RetryError")
               ELSE /\ phase' = [phase EXCEPT ![t] = "backoff"]
                    /\ UNCHANGED <<result, download_semaphore>>
    /\ UNCHANGED <<last_download_time, wake, attempt_number, dispatched, now>>
    /\ UNCHANGED streamVars
    /\ UNCHANGED restVars

\* The backoff sleep ends: the next attempt starts.
Retry(t) ==
    /\ phase[t] = "backoff"
    /\ phase' = [phase EXCEPT ![t] = "request"]
    /\ attempt_number' = [attempt_number EXCEPT ![t] = attempt_number[t] + 1]
    /\ UNCHANGED <<result, download_semaphore, last_download_time, wake, failures,
                   transient_left, dispatched, now>>
    /\ UNCHANGED streamVars
    /\ UNCHANGED restVars

(***************************************************************************)
(* The wall clock.                                                         *)
(***************************************************************************)
Tick ==
    /\ now < MaxTime
    /\ now' = now + 1
    /\ UNCHANGED <<dispatched>>
    /\ UNCHANGED streamVars
    /\ UNCHANGED taskVars
    /\ UNCHANGED restVars

Next ==
    \/ DownloadEntriesNext
    \/ DownloadEntriesRemaining
    \/ DownloadAll
    \/ AsyncioWait
    \/ \E t \in Ids : VisitDone(t)
    \/ AwaitEnd
    \/ \E t \in Ids : Acquire(t)
    \/ \E t \in Ids : RateLimit(t)
    \/ \E t \in Ids : Wake(t)
    \/ \E t \in Ids, o \in AttemptOutcomes : AttemptEnds(t, o)
    \/ \E t \in Ids : Retry(t)
    \/ Tick

Spec == Init /\ [][Next]_vars

(***************************************************************************)
(* The same program under a fair event loop: a task that can run is run,   *)
(* every remote call returns or raises, and the clock does not stop while  *)
(* a task sleeps.                                                          *)
(***************************************************************************)
\* The clock goes on past the last tick for a task that still sleeps.
TickForSleeper ==
    /\ now >= MaxTime
    /\ \E t \in Ids : phase[t] = "sleep" /\ now < wake[t]
    /\ now' = now + 1
    /\ UNCHANGED <<dispatched>>
    /\ UNCHANGED streamVars
    /\ UNCHANGED taskVars
    /\ UNCHANGED restVars

NextFair ==
    \/ Next
    \/ TickForSleeper

\* The event loop runs every ready callback; asyncio.sleep and the remote
\* call of an attempt end.
Fairness ==
    /\ WF_vars(DownloadEntriesNext)
    /\ WF_vars(DownloadEntriesRemaining)
    /\ WF_vars(DownloadAll)
    /\ WF_vars(AsyncioWait)
    /\ WF_vars(AwaitEnd)
    /\ WF_vars(Tick \/ TickForSleeper)
    /\ \A t \in Ids :
          /\ WF_vars(VisitDone(t))
          /\ WF_vars(Acquire(t))
          /\ WF_vars(RateLimit(t))
          /\ WF_vars(Wake(t))
          /\ WF_vars(\E o \in AttemptOutcomes : AttemptEnds(t, o))
          /\ WF_vars(Retry(t))

FairSpec == Init /\ [][NextFair]_vars /\ Fairness

(***************************************************************************)
(* The same program against a remote side that keeps failing: short        *)
(* identifier lists, and enough transient failures to exhaust the retry    *)
(* policy of one fetch.                                                    *)
(***************************************************************************)
InitRetry ==
    /\ kind \in StreamKinds
    /\ ids \in {[i \in 1..n |-> i] : n \in 1..MaxRetryIds}
    /\ idx = 0
    /\ stage = "collect"
    /\ entry_tasks = <<>>
    /\ ac = "idle"
    /\ pending = {}
    /\ done = {}
    /\ yielded = <<>>
    /\ raised = "none"
    /\ phase = [t \in Ids |-> "none"]
    /\ result = [t \in Ids |-> "none"]
    /\ dispatched = [t \in Ids |-> 0]
    /\ download_semaphore = max_concurrent_downloads
    /\ last_download_time = 0
    /\ now = 0
    /\ wake = [t \in Ids |-> 0]
    /\ attempt_number = [t \in Ids |-> 0]
    /\ failures = [t \in Ids |-> 0]
    /\ transient_left = StopAfterAttempt + 1
    /\ cofactors = Range(ids)
    /\ exclude = {}
    /\ GraphEmpty
    /\ NotIngesting
    /\ ServicesIdle

RetrySpec == InitRetry /\ [][Next]_vars

(***************************************************************************)
(* download_cofactors(protein, exclude) alone: any set of cofactors on the *)
(* protein, any set of identifiers to exclude.                             *)
(***************************************************************************)
InitCofactors ==
    /\ kind = "cofactors"
    /\ cofactors \in SUBSET Ids
    /\ exclude \in SUBSET Ids
    /\ ids = SetToList(cofactors)
    /\ idx = 0
    /\ stage = "collect"
    /\ entry_tasks = <<>>
    /\ ac = "idle"
    /\ pending = {}
    /\ done = {}
    /\ yielded = <<>>
    /\ raised = "none"
    /\ phase = [t \in Ids |-> "none"]
    /\ result = [t \in Ids |-> "none"]
    /\ dispatched = [t \in Ids |-> 0]
    /\ download_semaphore = max_concurrent_downloads
    /\ last_download_time = 0
    /\ now = 0
    /\ wake = [t \in Ids |-> 0]
    /\ attempt_number = [t \in Ids |-> 0]
    /\ failures = [t \in Ids |-> 0]
    /\ transient_left = MaxTransient
    /\ GraphEmpty
    /\ NotIngesting
    /\ ServicesIdle

NextCofactors ==
    \/ DownloadAll
    \/ AsyncioWait
    \/ \E t \in Ids : VisitDone(t)
    \/ AwaitEnd
    \/ \E t \in Ids : Acquire(t)
    \/ \E t \in Ids : RateLimit(t)
    \/ \E t \in Ids : Wake(t)
    \/ \E t \in Ids, o \in AttemptOutcomes : AttemptEnds(t, o)
    \/ \E t \in Ids : Retry(t)
    \/ Tick

CofactorSpec == InitCofactors /\ [][NextCofactors]_vars

(***************************************************************************)
(* The store on its own: any sequence of update_node and                   *)
(* create_relationship calls, each one a transaction of its own.           *)
(***************************************************************************)
\* No stream of the download manager is in use.
ManagerUnused ==
    /\ kind = "entries"
    /\ ids = <<>>
    /\ idx = 0
    /\ stage = "collect"
    /\ entry_tasks = <<>>
    /\ ac = "idle"
    /\ pending = {}
    /\ done = {}
    /\ yielded = <<>>
    /\ raised = "none"
    /\ phase = [t \in Ids |-> "none"]
    /\ result = [t \in Ids |-> "none"]
    /\ dispatched = [t \in Ids |-> 0]
    /\ download_semaphore = max_concurrent_downloads
    /\ last_download_time = 0
    /\ now = 0
    /\ wake = [t \in Ids |-> 0]
    /\ attempt_number = [t \in Ids |-> 0]
    /\ failures = [t \in Ids |-> 0]
    /\ transient_left = 0
    /\ cofactors = {}
    /\ exclude = {}

InitStore ==
    /\ ManagerUnused
    /\ GraphEmpty
    /\ NotIngesting
    /\ ServicesIdle

StoreUpdateNode ==
    \E entry \in NodeObjects, key \in Keys :
        /\ Len(nodes) < MaxNodes
        /\ UpdateNode(entry, key)
        /\ UNCHANGED edges
        /\ UNCHANGED <<managerVars, serviceVars>>
        /\ UNCHANGED ingestVars

StoreCreateRelationship ==
    \E e1, e2 \in NodeEnds, relation \in RelationTypes :
        /\ BagCardinality(edges) < MaxEdges
        /\ CreateRelationship(e1, e2, relation)
        /\ UNCHANGED <<nodes, last_call, last_bound>>
        /\ UNCHANGED <<managerVars, serviceVars>>
        /\ UNCHANGED ingestVars

NextStore ==
    \/ StoreUpdateNode
    \/ StoreCreateRelationship

StoreSpec == InitStore /\ [][NextStore]_vars

(***************************************************************************)
(* download_kg.form_kg.  One action is the code up to and including the    *)
(* next awaited store call or the next item of a stream; form_kg awaits    *)
(* each call before it goes on, so nothing of it runs in between.  The     *)
(* entry stream is taken as handing out entries (see MainFormKg for the    *)
(* call that creates it).                                                  *)
(***************************************************************************)
InitKg ==
    /\ ManagerUnused
    /\ GraphEmpty
    /\ pc = "entries"
    /\ entries_left = {"1", "2"}  \* the entry ids get_entry_list returns
    /\ cur_entry = NoNode
    /\ prots_left = {}
    /\ prot_entity = NoProt
    /\ cat = 0
    /\ pos = 0
    /\ drugs_left = {}
    /\ cur_drug = NoNode
    /\ targets_left = 0
    /\ added = [l \in DedupLabels |-> {}]
    /\ upsert_calls = EmptyBag
    /\ rel_calls = EmptyBag
    /\ refs = {}
    /\ ServicesIdle

\* await update_node(node, key=key)
KgUpdateNode(node, key) ==
    /\ UpdateNode(node, key)
    /\ upsert_calls' = upsert_calls
          (+) SetToBag({[label |-> node.label, entry_id |-> node.entry_id, id |-> node.id]})
    /\ UNCHANGED <<edges, rel_calls>>

\* await create_relationship(e1, e2, relation)
KgCreateRelationship(e1, e2, relation) ==
    /\ CreateRelationship(e1, e2, relation)
    /\ rel_calls' = rel_calls
          (+) SetToBag({[src |-> e1.uuid, dst |-> e2.uuid, type |-> relation]})
    /\ UNCHANGED <<nodes, last_call, last_bound, upsert_calls>>

NoStoreCall == UNCHANGED <<nodes, edges, last_call, last_bound, upsert_calls, rel_calls>>

\* A stream that hands out what it has handed out before.
Remaining_Again(left, x) == left

\* What a stream has left after it has handed out x: __await_concurrently
\* visits every finished task once.
Remaining(left, x) == left \ {x}

\* What a protein response refers to: the nodes of its lists, its cofactors.
RefsOf(info) ==
    UNION {{[prot |-> info.node.uuid, label |-> l, id |-> info.lists[l][n]] :
               n \in 1..Len(info.lists[l])} : l \in Range(ListLabels)}
    \cup {[prot |-> info.node.uuid, label |-> "DRUG", id |-> d] : d \in info.cofactors}

\* async for entry in download_entries(...): await update_node(entry)
NextEntry ==
    /\ pc = "entries"
    /\ \E e \in entries_left :
          /\ entries_left' = Remaining(entries_left, e)
          /\ cur_entry' = EntryNode(e)
          /\ KgUpdateNode(EntryNode(e), <<"uuid">>)
    /\ prots_left' = {"1"}  \* polymer_entity_ids of the entry
    /\ pc' = "entities"
    /\ UNCHANGED <<prot_entity, cat, pos, drugs_left, cur_drug, targets_left, added, refs>>
    /\ UNCHANGED <<managerVars, serviceVars>>

\* The entry stream drops an entry: its fetch got 404.
EntryDropped ==
    /\ pc = "entries"
    /\ \E e \in entries_left : entries_left' = entries_left \ {e}
    /\ UNCHANGED <<pc, cur_entry, prots_left, prot_entity, cat, pos, drugs_left,
                   cur_drug, targets_left, added, refs>>
    /\ NoStoreCall
    /\ UNCHANGED <<managerVars, serviceVars>>

\* The entry stream is exhausted: form_kg returns.
EntriesEnd ==
    /\ pc = "entries"
    /\ entries_left = {}
    /\ pc' = "done"
    /\ UNCHANGED <<entries_left, cur_entry, prots_left, prot_entity, cat, pos,
                   drugs_left, cur_drug, targets_left, added, refs>>
    /\ NoStoreCall
    /\ UNCHANGED <<managerVars, serviceVars>>

\* A stream raises the error of a fetch: form_kg ends with it.
StreamRaises ==
    /\ \/ pc = "entries" /\ entries_left # {}
       \/ pc = "entities" /\ prots_left # {}
       \/ pc = "cofactors" /\ drugs_left # {}
    /\ pc' = "raised"
    /\ UNCHANGED <<entries_left, cur_entry, prots_left, prot_entity, cat, pos,
                   drugs_left, cur_drug, targets_left, added, refs>>
    /\ NoStoreCall
    /\ UNCHANGED <<managerVars, serviceVars>>

\* The protein is taken from the stream and related before it is stored.
NextProtein_RelateFirst ==
    /\ pc = "entities"
    /\ \E i \in prots_left, lists \in [Range(ListLabels) -> {<<>>, <<"k">>}],
          cofs \in SUBSET {"d"} :
          /\ prots_left' = Remaining(prots_left, i)
          /\ prot_entity' = ProteinInfo(cur_entry.entry_id[1], i, lists, cofs)
          /\ refs' = refs \cup RefsOf(prot_entity')
    /\ NoStoreCall
    /\ pc' = "has_protein"
    /\ UNCHANGED <<entries_left, cur_entry, cat, pos, drugs_left, cur_drug,
                   targets_left, added>>
    /\ UNCHANGED <<managerVars, serviceVars>>

\* async for prot_entity in download_entities(entry):
\*     await update_node(prot_node, key=("entry_id", "id"))
NextProtein ==
    /\ pc = "entities"
    /\ \E i \in prots_left, lists \in [Range(ListLabels) -> {<<>>, <<"k">>}],
          cofs \in SUBSET {"d"} :
          /\ prots_left' = Remaining(prots_left, i)
          /\ prot_entity' = ProteinInfo(cur_entry.entry_id[1], i, lists, cofs)
          /\ KgUpdateNode(prot_entity'.node, <<"entry_id", "id">>)
          /\ refs' = refs \cup RefsOf(prot_entity')
    /\ pc' = "has_protein"
    /\ UNCHANGED <<entries_left, cur_entry, cat, pos, drugs_left, cur_drug,
                   targets_left, added>>
    /\ UNCHANGED <<managerVars, serviceVars>>

\* The entity stream drops a protein: its fetch got 404.
ProteinDropped ==
    /\ pc = "entities"
    /\ \E i \in prots_left : prots_left' = prots_left \ {i}
    /\ UNCHANGED <<pc, entries_left, cur_entry, prot_entity, cat, pos, drugs_left,
                   cur_drug, targets_left, added, refs>>
    /\ NoStoreCall
    /\ UNCHANGED <<managerVars, serviceVars>>

\* The entity stream is exhausted: on to the next entry.
EntitiesEnd ==
    /\ pc = "entities"
    /\ prots_left = {}
    /\ pc' = "entries"
    /\ cur_entry' = NoNode
    /\ UNCHANGED <<entries_left, prots_left, prot_entity, cat, pos, drugs_left,
                   cur_drug, targets_left, added, refs>>
    /\ NoStoreCall
    /\ UNCHANGED <<managerVars, serviceVars>>

\* await create_relationship(entry, prot_node, "HAS_PROTEIN")
RelateProtein ==
    /\ pc = "has_protein"
    /\ KgCreateRelationship(cur_entry, prot_entity.node, "HAS_PROTEIN")
    /\ pc' = "lists"
    /\ cat' = 1
    /\ pos' = 1
    /\ UNCHANGED <<entries_left, cur_entry, prots_left, prot_entity, drugs_left,
                   cur_drug, targets_left, added, refs>>
    /\ UNCHANGED <<managerVars, serviceVars>>

\* The list form_kg is going through, and the node it is at.
CurLabel == ListLabels[cat]
CurList == prot_entity.lists[CurLabel]
CurNode == ListNode(CurLabel, prot_entity.node, pos, CurList[pos])

\* A test that never finds the key.
AlreadyAdded_Never(label, key) == FALSE

\* The opposite of: if ho.scientific_name not in added_host_organisms
AlreadyAdded(label, key) == key \in added[label]

\* for ho in host_organ_node: if ... not in added_...: await update_node(ho, key=...)
UpsertListNode ==
    /\ pc = "lists"
    /\ pos <= Len(CurList)
    /\ ~AlreadyAdded(CurLabel, CurList[pos])
    /\ KgUpdateNode(CurNode, <<"id">>)
    /\ pc' = "list_rel"
    /\ UNCHANGED <<entries_left, cur_entry, prots_left, prot_entity, cat, pos,
                   drugs_left, cur_drug, targets_left, added, refs>>
    /\ UNCHANGED <<managerVars, serviceVars>>

\* await create_relationship(prot_node, ho, "HOST_ON"); added_....add(key)
RelateListNode ==
    /\ pc = "list_rel"
    /\ KgCreateRelationship(prot_entity.node, CurNode, RelationOf[CurLabel])
    /\ added' = [added EXCEPT ![CurLabel] = @ \cup {CurList[pos]}]
    /\ pos' = pos + 1
    /\ pc' = "lists"
    /\ UNCHANGED <<entries_left, cur_entry, prots_left, prot_entity, cat,
                   drugs_left, cur_drug, targets_left, refs>>
    /\ UNCHANGED <<managerVars, serviceVars>>

\* The key is in the set: the body of the if is skipped.
SkipListNode ==
    /\ pc = "lists"
    /\ pos <= Len(CurList)
    /\ AlreadyAdded(CurLabel, CurList[pos])
    /\ pos' = pos + 1
    /\ UNCHANGED <<pc, entries_left, cur_entry, prots_left, prot_entity, cat,
                   drugs_left, cur_drug, targets_left, added, refs>>
    /\ NoStoreCall
    /\ UNCHANGED <<managerVars, serviceVars>>

\* A list is exhausted: the next list, or after the last one
\* download_cofactors(prot_node, exclude=added_drugs).
ListEnd ==
    /\ pc = "lists"
    /\ pos > Len(CurList)
    /\ IF cat < Len(ListLabels)
       THEN /\ cat' = cat + 1
            /\ pos' = 1
            /\ UNCHANGED <<pc, drugs_left>>
       ELSE /\ cat' = 0
            /\ pos' = 0
            /\ pc' = "cofactors"
            /\ drugs_left' = RemoveExcluded(prot_entity.cofactors, added["DRUG"])
    /\ UNCHANGED <<entries_left, cur_entry, prots_left, prot_entity, cur_drug,
                   targets_left, added, refs>>
    /\ NoStoreCall
    /\ UNCHANGED <<managerVars, serviceVars>>

\* async for drug, targets in download_cofactors(...):
\*     await update_node(drug, key="id")
NextDrug ==
    /\ pc = "cofactors"
    /\ \E d \in drugs_left, n \in {0, 1} :  \* a drug has no target or one
          /\ drugs_left' = Remaining(drugs_left, d)
          /\ cur_drug' = DrugNode(prot_entity.node, d)
          /\ targets_left' = n
          /\ KgUpdateNode(cur_drug', <<"id">>)
    /\ pc' = "drug_rel"
    /\ UNCHANGED <<entries_left, cur_entry, prots_left, prot_entity, cat, pos,
                   added, refs>>
    /\ UNCHANGED <<managerVars, serviceVars>>

\* The cofactor stream drops a drug: its fetch got 404.
DrugDropped ==
    /\ pc = "cofactors"
    /\ \E d \in drugs_left : drugs_left' = drugs_left \ {d}
    /\ UNCHANGED <<pc, entries_left, cur_entry, prots_left, prot_entity, cat, pos,
                   cur_drug, targets_left, added, refs>>
    /\ NoStoreCall
    /\ UNCHANGED <<managerVars, serviceVars>>

\* await create_relationship(prot_node, drug, "HAS_COFACTOR")
RelateDrug ==
    /\ pc = "drug_rel"
    /\ KgCreateRelationship(prot_entity.node, cur_drug, "HAS_COFACTOR")
    /\ pc' = "targets"
    /\ UNCHANGED <<entries_left, cur_entry, prots_left, prot_entity, cat, pos,
                   drugs_left, cur_drug, targets_left, added, refs>>
    /\ UNCHANGED <<managerVars, serviceVars>>

\* for drug_tar in targets: await update_node(drug_tar)
UpsertTarget ==
    /\ pc = "targets"
    /\ targets_left > 0
    /\ KgUpdateNode(DrugbankTarget(cur_drug), <<"uuid">>)
    /\ pc' = "target_rel"
    /\ UNCHANGED <<entries_left, cur_entry, prots_left, prot_entity, cat, pos,
                   drugs_left, cur_drug, targets_left, added, refs>>
    /\ UNCHANGED <<managerVars, serviceVars>>

\* await create_relationship(drug, drug_tar, "TARGET_TO")
RelateTarget ==
    /\ pc = "target_rel"
    /\ KgCreateRelationship(cur_drug, DrugbankTarget(cur_drug), "TARGET_TO")
    /\ targets_left' = targets_left - 1
    /\ pc' = "targets"
    /\ UNCHANGED <<entries_left, cur_entry, prots_left, prot_entity, cat, pos,
                   drugs_left, cur_drug, added, refs>>
    /\ UNCHANGED <<managerVars, serviceVars>>

\* The targets are exhausted: back to the cofactor stream.
TargetsEnd ==
    /\ pc = "targets"
    /\ targets_left = 0
    /\ pc' = "cofactors"
    /\ cur_drug' = NoNode
    /\ UNCHANGED <<entries_left, cur_entry, prots_left, prot_entity, cat, pos,
                   drugs_left, targets_left, added, refs>>
    /\ NoStoreCall
    /\ UNCHANGED <<managerVars, serviceVars>>

\* The cofactor stream is exhausted: added_drugs.update(prot_node.cofactors),
\* and on to the next protein.
CofactorsEnd ==
    /\ pc = "cofactors"
    /\ drugs_left = {}
    /\ added' = [added EXCEPT !["DRUG"] = @ \cup prot_entity.cofactors]
    /\ prot_entity' = NoProt
    /\ pc' = "entities"
    /\ UNCHANGED <<entries_left, cur_entry, prots_left, cat, pos, drugs_left,
                   cur_drug, targets_left, refs>>
    /\ NoStoreCall
    /\ UNCHANGED <<managerVars, serviceVars>>

NextKg ==
    \/ NextEntry
    \/ EntryDropped
    \/ EntriesEnd
    \/ StreamRaises
    \/ NextProtein
    \/ ProteinDropped
    \/ EntitiesEnd
    \/ RelateProtein
    \/ UpsertListNode
    \/ RelateListNode
    \/ SkipListNode
    \/ ListEnd
    \/ NextDrug
    \/ DrugDropped
    \/ RelateDrug
    \/ UpsertTarget
    \/ RelateTarget
    \/ TargetsEnd
    \/ CofactorsEnd

KgSpec == InitKg /\ [][NextKg]_vars

(***************************************************************************)
(* graph_db read queries: get_neighbors, get_annotated, get_path, on a     *)
(* store that holds an entry, two proteins and an annotation, each         *)
(* upserted once by its uuid, and the relationships created since.         *)
(***************************************************************************)
QueryObjects ==
    <<Node("ENTRY", <<"e">>, Absent, Absent),
      Node("PROTEIN", <<"p">>, <<"a">>, <<"x">>),
      Node("PROTEIN", <<"q">>, <<"b">>, <<"x">>),
      Node("ANNOTATION", <<"g">>, <<"a">>, <<"x">>)>>

\* The uuids a request can name.
QueryIds == {o.uuid : o \in Range(QueryObjects)}

\* The store after update_node(o) for the first n objects, in order.
RECURSIVE UpsertedStore(_)
UpsertedStore(n) ==
    IF n = 0 THEN <<>>
    ELSE UpdateEntryTransaction(UpsertedStore(n - 1), QueryObjects[n], <<"uuid">>)

InitQuery ==
    /\ ManagerUnused
    /\ nodes = UpsertedStore(Len(QueryObjects))
    /\ edges = EmptyBag
    /\ last_call = [entry |-> QueryObjects[Len(QueryObjects)], key |-> <<"uuid">>]
    /\ last_bound = {Len(QueryObjects)}
    /\ NotIngesting
    /\ ServicesIdle

\* form_kg relates a node to another node, never to itself.
QueryCreateRelationship ==
    \E e1, e2 \in {[label |-> o.label, uuid |-> o.uuid] : o \in Range(QueryObjects)},
       relation \in RelationTypes :
        /\ reply = NoReply
        /\ e1 # e2
        /\ BagCardinality(edges) < MaxEdges
        /\ CreateRelationship(e1, e2, relation)
        /\ UNCHANGED <<nodes, last_call, last_bound, reply>>
        /\ UNCHANGED managerVars
        /\ UNCHANGED ingestVars
        /\ UNCHANGED <<serializerVars, resourceVars, loopVars, commandVars>>

\* MATCH ({uuid: "<uuid>"}): the stored nodes of any label with that uuid,
\* written in the query as the literal  "<uuid>".
UuidMatches(store, uuid) ==
    LET UuidQuoted == <<Quote>> \o uuid \o <<Quote>>
    IN {a \in 1..Len(store) : store[a].props["uuid"] = CypherValue(UuidQuoted)}

\* A relationship from a to c only.
Joined_Outgoing(es, a, c) ==
    \E r \in BagToSet(es) : r.src = a /\ r.dst = c

\* (a)-[*1]-(c): one relationship joins a and c, in either direction.
Joined(es, a, c) ==
    \E r \in BagToSet(es) : (r.src = a /\ r.dst = c) \/ (r.src = c /\ r.dst = a)

\* convert_node: NodeBase(label=node_type.lower(), **node_info) keeps the
\* label and the uuid of the stored node.
ConvertNode(node) == [label |-> node.label, uuid |-> node.props["uuid"]]

\* list(res.graph().nodes): every returned node once, in the order the
\* driver met them, which is any order; each node converted.
GraphNodes(store, found) ==
    {[i \in 1..Cardinality(found) |-> ConvertNode(store[p[i]])] :
        p \in {q \in [1..Cardinality(found) -> found] : Range(q) = found}}

\* MATCH ({uuid: "..."})-[*1]-(c) RETURN c
NeighborsQuery(store, es, object_id) ==
    {c \in 1..Len(store) : \E a \in UuidMatches(store, object_id) : Joined(es, a, c)}

\* get_neighbors(object_id)
GetNeighbors ==
    \E object_id \in QueryIds :
        /\ reply = NoReply
        /\ \E node_info \in GraphNodes(nodes, NeighborsQuery(nodes, edges, object_id)) :
              reply' = [op |-> "get_neighbors", args |-> <<object_id>>,
                        result |-> node_info]
        /\ UNCHANGED <<nodes, edges, last_call, last_bound>>
        /\ UNCHANGED managerVars
        /\ UNCHANGED ingestVars
        /\ UNCHANGED <<serializerVars, resourceVars, loopVars, commandVars>>

\* get_annotated(annotation_id):
\*     MATCH ({uuid: "..."})-[*1]-(c:PROTEIN) RETURN c
GetAnnotated ==
    \E annotation_id \in QueryIds :
        /\ reply = NoReply
        /\ LET AnnotatedQuery ==
                   {c \in NeighborsQuery(nodes, edges, annotation_id) :
                       nodes[c].label = "PROTEIN"}
           IN \E node_info \in GraphNodes(nodes, AnnotatedQuery) :
                 reply' = [op |-> "get_annotated", args |-> <<annotation_id>>,
                           result |-> node_info]
        /\ UNCHANGED <<nodes, edges, last_call, last_bound>>
        /\ UNCHANGED managerVars
        /\ UNCHANGED ingestVars
        /\ UNCHANGED <<serializerVars, resourceVars, loopVars, commandVars>>

\* (a)-[*]-(b): the walks from a to b along relationships in either
\* direction, as lists of stored nodes.
RECURSIVE WalksFrom(_, _, _, _)
WalksFrom(store, es, a, n) ==
    IF n = 1 THEN {<<a>>}
    ELSE UNION {{Append(p, c) : c \in {x \in 1..Len(store) : Joined(es, p[Len(p)], x)}} :
                   p \in WalksFrom(store, es, a, n - 1)}

\* shortestPath(...): the walks from a to b with the fewest relationships.
ShortestPaths(store, es, a, b) ==
    LET walks == UNION {{p \in WalksFrom(store, es, a, n) : p[n] = b} :
                           n \in 2..Len(store)}
    IN {p \in walks : \A o \in walks : Len(p) <= Len(o)}

\* A filter that lets every path through.
WithinLength_Any(length, max_length) == TRUE

\* WHERE length(p) < max_length
WithinLength(length, max_length) == length < max_length

\* get_path(start, end, max_length), for two different uuids.  The database
\* returns one of the shortest paths; no row when there is none or when the
\* filter drops it.  PathLength is length(p), the number of relationships
\* of the path; PathNodes is the nodes of the path in order, each converted.
GetPath ==
    \E start, end \in QueryIds :
        /\ reply = NoReply
        /\ start # end
        /\ \E a \in UuidMatches(nodes, start), b \in UuidMatches(nodes, end) :
              LET shortest == ShortestPaths(nodes, edges, a, b)
                  PathLength(p) == Len(p) - 1
                  PathNodes(p) == [i \in 1..Len(p) |-> ConvertNode(nodes[p[i]])]
              IN \E max_length \in 1..MaxLength :
                    \/ /\ shortest = {}
                       /\ reply' = [op |-> "get_path", args |-> <<start, end, max_length>>,
                                    result |-> <<>>]
                    \/ \E p \in shortest :
                          reply' = [op |-> "get_path", args |-> <<start, end, max_length>>,
                                    result |-> IF WithinLength(PathLength(p), max_length)
                                               THEN PathNodes(p)
                                               ELSE <<>>]
        /\ UNCHANGED <<nodes, edges, last_call, last_bound>>
        /\ UNCHANGED managerVars
        /\ UNCHANGED ingestVars
        /\ UNCHANGED <<serializerVars, resourceVars, loopVars, commandVars>>

\* The endpoint has sent its response.
QueryReturn ==
    /\ reply # NoReply
    /\ reply' = NoReply
    /\ UNCHANGED <<nodes, edges, last_call, last_bound>>
    /\ UNCHANGED managerVars
    /\ UNCHANGED ingestVars
    /\ UNCHANGED <<serializerVars, resourceVars, loopVars, commandVars>>

NextQuery ==
    \/ QueryCreateRelationship
    \/ GetNeighbors
    \/ GetAnnotated
    \/ GetPath
    \/ QueryReturn

QuerySpec == InitQuery /\ [][NextQuery]_vars

(***************************************************************************)
(* graph_db._to_cypher on its own: two values are serialized.  A value is  *)
(* a str, an int, None or a list of such scalars.                          *)
(***************************************************************************)
\* The values given to the serializer: strings over an alphabet that holds
\* the quote and the backslash, two ints, None, and lists of scalars.
SupportedValues ==
    LET Alphabet == {"a", "1", Quote, "\\"}
        StrValues ==
            {[type |-> "str", v |-> s] :
                s \in UNION {[1..n -> Alphabet] : n \in 0..MaxChars}}
        IntValues == {[type |-> "int", v |-> n] : n \in {1, 11}}
        NoneValue == [type |-> "NoneType", v |-> 0]
        ListItems ==
            {[type |-> "str", v |-> <<"a">>], [type |-> "str", v |-> <<"1">>],
             [type |-> "int", v |-> 1]}
        ListValues ==
            {[type |-> "list", v |-> l] : l \in UNION {[1..n -> ListItems] : n \in 0..2}}
    IN StrValues \cup IntValues \cup {NoneValue} \cup ListValues

\* str(value) of a non-negative int.
RECURSIVE IntToStr(_)
IntToStr(n) ==
    LET DecimalDigits == <<"0", "1", "2", "3", "4", "5", "6", "7", "8", "9">>
    IN IF n < 10 THEN <<DecimalDigits[n + 1]>>
       ELSE IntToStr(n \div 10) \o <<DecimalDigits[(n % 10) + 1]>>

\* _to_cypher of a str, an int or None:
\*     int: _to_cypher(str(value));  None: "null"
ToCypherScalar(value) ==
    LET ToCypherInt == ToCypherStr(IntToStr(value.v))
        ToCypherNone == <<"n", "u", "l", "l">>
    IN CASE value.type = "str" -> ToCypherStr(value.v)
         [] value.type = "int" -> ToCypherInt
         [] value.type = "NoneType" -> ToCypherNone

\* ",".join(list_items)
RECURSIVE JoinComma(_)
JoinComma(list_items) ==
    IF list_items = <<>> THEN <<>>
    ELSE IF Len(list_items) = 1 THEN list_items[1]
    ELSE list_items[1] \o <<",">> \o JoinComma(Tail(list_items))

\* _to_cypher(value), by the type of value.
\*     list: "[" + ",".join(_to_cypher(i) for i in value) + "]"
ToCypher(value) ==
    LET ToCypherList ==
            <<"[">> \o JoinComma([i \in 1..Len(value.v) |-> ToCypherScalar(value.v[i])])
                    \o <<"]">>
    IN IF value.type = "list" THEN ToCypherList ELSE ToCypherScalar(value)

InitSerializer ==
    /\ ManagerUnused
    /\ GraphEmpty
    /\ NotIngesting
    /\ reply = NoReply
    /\ values \in SupportedValues \X SupportedValues
    /\ literals = <<>>
    /\ ResourcesIdle
    /\ CommandIdle
    /\ store_call = NoStoreOp
    /\ calls_left = 0
    /\ fetch_steps = <<>>
    /\ overlapped = {}

\* Both values are serialized.
Serialize ==
    /\ literals = <<>>
    /\ literals' = <<ToCypher(values[1]), ToCypher(values[2])>>
    /\ UNCHANGED values
    /\ UNCHANGED <<managerVars, storeVars, ingestVars>>
    /\ UNCHANGED <<reply, resourceVars, loopVars, commandVars>>

NextSerializer == Serialize

SerializerSpec == InitSerializer /\ [][NextSerializer]_vars

(***************************************************************************)
(* neo4j_driver.get_driver, called by store calls that run on worker       *)
(* threads at the same time (run_in_thread: run_in_executor), and          *)
(* aiohttp_session.get_session, called by the download tasks of the event  *)
(* loop.  A thread can be preempted between any two statements; a task     *)
(* gives up the loop only at an await.                                     *)
(***************************************************************************)
InitResources ==
    /\ ManagerUnused
    /\ GraphEmpty
    /\ NotIngesting
    /\ ServicesIdle

\* What no step of a worker thread changes.
notDriverVars ==
    <<managerVars, storeVars, ingestVars, reply, serializerVars, loopVars,
      commandVars, g_session, sessions_created, fetcher>>

\* What no step of a download task changes here.
notSessionVars ==
    <<managerVars, storeVars, ingestVars, reply, serializerVars, loopVars,
      commandVars, g_driver, drivers_created, worker>>

\* _update_entry_sync and the like, on a worker thread: get_driver() is called.
CallGetDriver(t) ==
    /\ worker[t].pc \in {"idle", "done"}
    /\ worker' = [worker EXCEPT ![t].pc = "test"]
    /\ UNCHANGED <<g_driver, drivers_created>>
    /\ UNCHANGED notDriverVars

\* if _g_driver is None:
TestDriver(t) ==
    /\ worker[t].pc = "test"
    /\ worker' = [worker EXCEPT ![t].pc = IF g_driver = 0 THEN "create" ELSE "return"]
    /\ UNCHANGED <<g_driver, drivers_created>>
    /\ UNCHANGED notDriverVars

\* _g_driver = GraphDatabase.driver(...)
CreateDriver(t) ==
    /\ worker[t].pc = "create"
    /\ drivers_created' = drivers_created + 1
    /\ g_driver' = drivers_created + 1
    /\ worker' = [worker EXCEPT ![t].pc = "return"]
    /\ UNCHANGED notDriverVars

\* return _g_driver
ReturnDriver(t) ==
    /\ worker[t].pc = "return"
    /\ worker' = [worker EXCEPT ![t] = [pc |-> "done", got |-> g_driver]]
    /\ UNCHANGED <<g_driver, drivers_created>>
    /\ UNCHANGED notDriverVars

\* A test that never finds the session.
SessionMissing_Always == TRUE

\* if _g_session is None:
SessionMissing == g_session = 0

\* _get_json: session = await get_session().  get_session has no await of
\* its own, so the loop runs it in one piece.
GetSession(t) ==
    /\ fetcher[t].pc = "idle"
    /\ IF SessionMissing
       THEN /\ sessions_created' = sessions_created + 1
            /\ g_session' = sessions_created + 1
       ELSE UNCHANGED <<g_session, sessions_created>>
    /\ fetcher' = [fetcher EXCEPT ![t] = [pc |-> "request", got |-> g_session']]
    /\ UNCHANGED notSessionVars

\* async with session.get(url, ...): the response arrives.
ResponseArrives(t) ==
    /\ fetcher[t].pc = "request"
    /\ fetcher' = [fetcher EXCEPT ![t].pc = "done"]
    /\ UNCHANGED <<g_session, sessions_created>>
    /\ UNCHANGED notSessionVars

\* The request fails and _RETRY calls the fetch again.
RetryFetch(t) ==
    /\ fetcher[t].pc = "request"
    /\ fetcher' = [fetcher EXCEPT ![t].pc = "idle"]
    /\ UNCHANGED <<g_session, sessions_created>>
    /\ UNCHANGED notSessionVars

NextResources ==
    \/ \E t \in Threads : CallGetDriver(t)
    \/ \E t \in Threads : TestDriver(t)
    \/ \E t \in Threads : CreateDriver(t)
    \/ \E t \in Threads : ReturnDriver(t)
    \/ \E t \in Tasks : GetSession(t)
    \/ \E t \in Tasks : ResponseArrives(t)
    \/ \E t \in Tasks : RetryFetch(t)

ResourceSpec == InitResources /\ [][NextResources]_vars

(***************************************************************************)
(* download_kg.main on the event loop: _create_standard_indices, then      *)
(* form_kg with its download tasks.  form_kg awaits one store call at a    *)
(* time.  A download task is ready while it has steps left, which happens  *)
(* during a store call when __await_concurrently has handed out a result   *)
(* while other tasks of the stream are still pending.                      *)
(***************************************************************************)
InitLoop ==
    /\ ManagerUnused
    /\ GraphEmpty
    /\ NotIngesting
    /\ reply = NoReply
    /\ values = <<>>
    /\ literals = <<>>
    /\ ResourcesIdle
    /\ CommandIdle
    /\ store_call = NoStoreOp
    /\ calls_left = MaxCalls
    /\ fetch_steps = <<>>
    /\ overlapped = {}

\* What no step of the event loop changes here.
notLoopVars ==
    <<managerVars, storeVars, ingestVars, reply, serializerVars, resourceVars,
      commandVars>>

\* run_in_thread(fn, *args): run_in_executor, the call runs on a worker thread.
RunInThread(op) == [op |-> op, thread |-> "worker"]

\* await create_index(...), in _create_standard_indices, before form_kg.
CreateIndexStarts ==
    /\ store_call = NoStoreOp
    /\ fetch_steps = <<>>
    /\ calls_left > 0
    /\ calls_left' = calls_left - 1
    /\ store_call' = RunInThread("create_index")
    /\ UNCHANGED <<fetch_steps, overlapped>>
    /\ UNCHANGED notLoopVars

\* asyncio.run(form_kg(...)): the streams create their download tasks.
FormKgStarts ==
    /\ store_call = NoStoreOp
    /\ fetch_steps = <<>>
    /\ fetch_steps' = [t \in Tasks |-> 0]
    /\ UNCHANGED <<store_call, calls_left, overlapped>>
    /\ UNCHANGED notLoopVars

\* await update_node(...), in form_kg.
UpdateNodeStarts ==
    /\ store_call = NoStoreOp
    /\ fetch_steps # <<>>
    /\ calls_left > 0
    /\ calls_left' = calls_left - 1
    /\ store_call' = RunInThread("update_node")
    /\ UNCHANGED <<fetch_steps, overlapped>>
    /\ UNCHANGED notLoopVars

\* await create_relationship(...), in form_kg.  It ends with
\* do_query(cql): session.run(cql) is called where the coroutine runs, on
\* the thread of the event loop.
CreateRelationshipStarts ==
    /\ store_call = NoStoreOp
    /\ fetch_steps # <<>>
    /\ calls_left > 0
    /\ calls_left' = calls_left - 1
    /\ store_call' = [op |-> "create_relationship", thread |-> "loop"]
    /\ UNCHANGED <<fetch_steps, overlapped>>
    /\ UNCHANGED notLoopVars

\* The store call returns and form_kg goes on.
StoreCallEnds ==
    /\ store_call # NoStoreOp
    /\ store_call' = NoStoreOp
    /\ UNCHANGED <<calls_left, fetch_steps, overlapped>>
    /\ UNCHANGED notLoopVars

\* The download task t has steps left.
Ready(t) == fetch_steps # <<>> /\ fetch_steps[t] < MaxSteps

\* The event loop runs the next step of the download task t.
RunDownloadTask(t) ==
    /\ Ready(t)
    /\ store_call.thread # "loop"  \* the loop is not inside a synchronous call
    /\ fetch_steps' = [fetch_steps EXCEPT ![t] = @ + 1]
    /\ overlapped' = IF store_call = NoStoreOp THEN overlapped
                     ELSE overlapped \cup {store_call.op}
    /\ UNCHANGED <<store_call, calls_left>>
    /\ UNCHANGED notLoopVars

NextLoop ==
    \/ CreateIndexStarts
    \/ FormKgStarts
    \/ UpdateNodeStarts
    \/ CreateRelationshipStarts
    \/ StoreCallEnds
    \/ \E t \in Tasks : RunDownloadTask(t)

LoopSpec == InitLoop /\ [][NextLoop]_vars

(***************************************************************************)
(* download_tasks.get_entry, after the response has arrived: the parsing   *)
(* of any response with up to MaxCitations citations, each with or without *)
(* title, authors and year, and with or without the container identifiers. *)
(***************************************************************************)
\* The responses given to get_entry.
EntryResponses ==
    LET Titles == {[type |-> "str", v |-> <<"A">>], [type |-> "str", v |-> <<"B">>]}
        Authors == {[type |-> "list", v |-> <<"X">>]}
        Years == {[type |-> "int", v |-> 2000]}
        CitationJson ==
            [title : Titles \cup {None}, authors : Authors \cup {None},
             year : Years \cup {None}]
        CitationLists ==
            {[type |-> "list", v |-> l] :
                l \in UNION {[1..n -> CitationJson] : n \in 0..MaxCitations}}
        ContainerIds ==
            {[type |-> "dict", v |-> [polymer_entity_ids |-> p]] :
                p \in {None, [type |-> "list", v |-> <<"1">>]}}
    IN [citation : CitationLists \cup {None},
        rcsb_entry_container_identifiers : ContainerIds \cup {None}]

\* The citation is kept whatever its authors.
Omitted_NoTitle(citation) == citation.title.type = "NoneType"

\* if title is None or authors is None: continue
Omitted(citation) ==
    citation.title.type = "NoneType" \/ citation.authors.type = "NoneType"

\* Publication(title=title, authors=authors, year=citation.get("year"))
Publication(citation) ==
    [title |-> citation.title, authors |-> citation.authors, year |-> citation.year]

\* The list citations at the end of the loop over entry_json.get("citation", []).
RECURSIVE Citations(_)
Citations(citations_json) ==
    IF citations_json = <<>> THEN <<>>
    ELSE IF Omitted(Head(citations_json)) THEN Citations(Tail(citations_json))
    ELSE <<Publication(Head(citations_json))>> \o Citations(Tail(citations_json))

InitParse ==
    /\ ManagerUnused
    /\ GraphEmpty
    /\ NotIngesting
    /\ reply = NoReply
    /\ values = <<>>
    /\ literals = <<>>
    /\ ResourcesIdle
    /\ store_call = NoStoreOp
    /\ calls_left = 0
    /\ fetch_steps = <<>>
    /\ overlapped = {}
    /\ entry_json \in EntryResponses
    /\ entry_node = NoEntry
    /\ cli_args = [clear |-> FALSE, start_from |-> None]
    /\ main_pc = "off"
    /\ store_log = <<>>
    /\ runs = 0

\* What get_entry does not touch.
notParseVars ==
    <<managerVars, storeVars, ingestVars, reply, serializerVars, resourceVars,
      loopVars, cli_args, main_pc, store_log, runs>>

\* get_entry from `citations_json = entry_json.get("citation", [])` on.
\* entry_json["rcsb_entry_container_identifiers"] raises KeyError when the
\* key is missing.
GetEntry ==
    /\ entry_node = NoEntry
    /\ LET citations_json == IF entry_json.citation.type = "NoneType"
                             THEN <<>>
                             ELSE entry_json.citation.v
           container_ids == entry_json.rcsb_entry_container_identifiers
       IN entry_node' =
             IF container_ids.type = "NoneType"
             THEN [NoEntry EXCEPT !.outcome = "KeyError"]
             ELSE [outcome |-> "EntryNode",
                   protein_entity_ids |->
                       IF container_ids.v.polymer_entity_ids.type = "NoneType"
                       THEN {}
                       ELSE Range(container_ids.v.polymer_entity_ids.v),
                   publications |-> Citations(citations_json)]
    /\ UNCHANGED entry_json
    /\ UNCHANGED notParseVars

NextParse == GetEntry

ParseSpec == InitParse /\ [][NextParse]_vars

(***************************************************************************)
(* download_kg.main: the ingestion command, run on a database that holds   *)
(* nothing or what earlier upserts have left, with any command line.       *)
(***************************************************************************)
\* The identifiers the remote side lists, in the order of the list.
EntryList == [i \in 1..MaxIds |-> i]

\* _make_parser().parse_args(): --clear is a flag, --start-from defaults to
\* None; 0 is an identifier that is not on the list.
CliArgs ==
    [clear : BOOLEAN,
     start_from : {None} \cup {[type |-> "str", v |-> x] : x \in {0} \cup Range(EntryList)}]

\* _create_standard_indices: the create_index calls, in order.
StandardIndices ==
    <<[label |-> "PROTEIN", properties |-> <<"entry_id", "id">>],
      [label |-> "HOST_ORGANISM", properties |-> <<"scientific_name">>],
      [label |-> "SOURCE_ORGANISM", properties |-> <<"scientific_name">>],
      [label |-> "DATABASE", properties |-> <<"reference_database_accession">>],
      [label |-> "ANNOTATION", properties |-> <<"id">>],
      [label |-> "DRUG", properties |-> <<"id">>]>>

InitCommand ==
    /\ ManagerUnused
    /\ \E n \in 0..2 :
          /\ nodes = UpsertedStore(n)
          /\ edges \in IF n = 2
                       THEN {EmptyBag, SetToBag({Edge(1, 2, "HAS_PROTEIN")})}
                       ELSE {EmptyBag}
          /\ last_call = IF n = 0 THEN NoCall
                         ELSE [entry |-> QueryObjects[n], key |-> <<"uuid">>]
          /\ last_bound = IF n = 0 THEN {} ELSE {n}
    /\ NotIngesting
    /\ reply = NoReply
    /\ values = <<>>
    /\ literals = <<>>
    /\ ResourcesIdle
    /\ store_call = NoStoreOp
    /\ calls_left = 0
    /\ fetch_steps = <<>>
    /\ overlapped = {}
    /\ entry_json = [citation |-> None, rcsb_entry_container_identifiers |-> None]
    /\ entry_node = NoEntry
    /\ cli_args \in CliArgs
    /\ main_pc = "start"
    /\ store_log = <<>>
    /\ runs = 0

\* What main and the calls it makes leave alone.
notMainVars ==
    <<managerVars, ingestVars, reply, serializerVars, resourceVars, loopVars,
      entry_json, entry_node, cli_args, runs, last_call, last_bound>>

\* The database is cleared whatever the command line.
ClearRequested_Always(args) == TRUE

\* if cli_args.clear:
ClearRequested(args) == args.clear

\* main up to asyncio.run(_create_standard_indices()).  delete_all() runs
\* "MATCH (n) DETACH DELETE n" and returns when the query has run.
MainClear ==
    /\ main_pc = "start"
    /\ IF ClearRequested(cli_args)
       THEN /\ nodes' = <<>>
            /\ edges' = EmptyBag
            /\ store_log' = Append(store_log,
                  [op |-> "delete_all", label |-> "none", properties |-> <<>>])
       ELSE UNCHANGED <<nodes, edges, store_log>>
    /\ main_pc' = "indices"
    /\ UNCHANGED notMainVars

\* _create_standard_indices: the next await create_index(label, properties).
\* CREATE INDEX IF NOT EXISTS changes no node and no relationship.
MainCreateIndex ==
    /\ main_pc = "indices"
    /\ LET IsCreateIndex(s) == s.op = "create_index"
           n == Len(SelectSeq(store_log, IsCreateIndex)) + 1
       IN /\ store_log' = Append(store_log,
                [op |-> "create_index", label |-> StandardIndices[n].label,
                 properties |-> StandardIndices[n].properties])
          /\ main_pc' = IF n = Len(StandardIndices) THEN "form_kg" ELSE "indices"
    /\ UNCHANGED <<nodes, edges>>
    /\ UNCHANGED notMainVars

\* asyncio.run(form_kg(start_at_entry=cli_args.start_from)): form_kg calls
\* download_manager.download_entries(start_at=start_at_entry), and
\* download_entries(self) takes no such argument: the call raises TypeError
\* before any identifier is fetched, and main ends with it.
MainFormKg ==
    /\ main_pc = "form_kg"
    /\ main_pc' = "TypeError"
    /\ UNCHANGED <<nodes, edges, store_log>>
    /\ UNCHANGED notMainVars

NextCommand ==
    \/ MainClear
    \/ MainCreateIndex
    \/ MainFormKg

CommandSpec == InitCommand /\ [][NextCommand]_vars

(***************************************************************************)
(* form_kg run again and again on the same store, for a working entry      *)
(* stream over a catalog of three entries without polymer entities: what   *)
(* the loop of form_kg does with each entry it is handed.                  *)
(***************************************************************************)
\* The EntryNode get_entry builds in the n-th run: uuid4 gives it a uuid of
\* its own.
EntryNodeOfRun(e, n) ==
    LET Digits == <<"1", "2", "3">>
    IN [EntryNode(e) EXCEPT !.uuid = <<"ENTRY", e, Digits[n]>>]

\* What no run of form_kg changes here.
notRerunVars ==
    <<managerVars, reply, serializerVars, resourceVars, loopVars, entry_json,
      entry_node, cli_args, main_pc, store_log>>

\* asyncio.run(form_kg()): a new DownloadManager, new added_* sets, the
\* entry stream over the catalog.
RerunFormKg ==
    /\ pc \in {"off", "done"}
    /\ runs < MaxRuns
    /\ runs' = runs + 1
    /\ pc' = "entries"
    /\ entries_left' = {"1", "2", "3"}
    /\ added' = [l \in DedupLabels |-> {}]
    /\ UNCHANGED <<cur_entry, prots_left, prot_entity, cat, pos, drugs_left, cur_drug,
                   targets_left, refs>>
    /\ NoStoreCall
    /\ UNCHANGED notRerunVars

\* The entry stream hands out an entry: await update_node(entry).  The
\* entry has no polymer_entity_ids, the entity stream ends at once.
RerunNextEntry ==
    /\ pc = "entries"
    /\ \E e \in entries_left :
          /\ entries_left' = Remaining(entries_left, e)
          /\ cur_entry' = EntryNodeOfRun(e, runs)
          /\ KgUpdateNode(EntryNodeOfRun(e, runs), <<"uuid">>)
    /\ UNCHANGED <<pc, prots_left, prot_entity, cat, pos, drugs_left, cur_drug,
                   targets_left, added, refs, runs>>
    /\ UNCHANGED notRerunVars

\* The entry stream is exhausted: form_kg returns.
RerunEntriesEnd ==
    /\ pc = "entries"
    /\ entries_left = {}
    /\ pc' = "done"
    /\ UNCHANGED <<entries_left, cur_entry, prots_left, prot_entity, cat, pos,
                   drugs_left, cur_drug, targets_left, added, refs, runs>>
    /\ NoStoreCall
    /\ UNCHANGED notRerunVars

NextRerun ==
    \/ RerunFormKg
    \/ RerunNextEntry
    \/ RerunEntriesEnd

RerunSpec == InitStore /\ [][NextRerun]_vars

TypeOK ==
    /\ kind \in StreamKinds
    /\ idx \in 0..Len(ids)
    /\ download_semaphore \in 0..max_concurrent_downloads
    /\ now \in 0..MaxTime

\* Identifiers whose result the consumer has received.
Yielded == Range(yielded)

(***************************************************************************)
(* Properties.                                                             *)
(***************************************************************************)

\* C1: when the entry stream has ended normally, exactly one fetch task was
\* created for every identifier of the list it was given.
C1_EveryIdFetchedOnce ==
    (kind = "entries" /\ stage = "finished")
        => \A i \in 1..Len(ids) : dispatched[ids[i]] = 1

\* C2: at most max_concurrent_downloads tasks are between entering the
\* semaphore and finishing (rate check, sleep, request, retry backoff).
C2_BoundedHolders == Cardinality(Holders) <= max_concurrent_downloads

\* The gate is full, one holder is in its retry backoff and a task waits outside.
C2_Witness ==
    /\ Cardinality(Holders) = max_concurrent_downloads
    /\ \E t \in Ids : phase[t] = "backoff"
    /\ \E t \in Ids : phase[t] = "acquire"

\* C3: every step in which a task passes the rate check moves the shared
\* last dispatch time forward by at least min_request_period, so no two
\* tasks pass against the same last dispatch time.
C3_GrantsSpaced ==
    [][\A t \in Ids :
          (phase[t] \in {"rate", "sleep"} /\ phase'[t] = "request")
              => /\ now - last_download_time >= min_request_period
                 /\ last_download_time' - last_download_time >= min_request_period]_vars

\* Two tasks have passed the rate check, and a third one, which looked at the
\* clock after the latest grant, sleeps until a period after it.
C3_Witness ==
    /\ Cardinality({t \in Ids : phase[t] \in {"request", "backoff", "done"}}) >= 2
    /\ last_download_time >= 2 * min_request_period
    /\ \E t \in Ids :
          /\ phase[t] = "sleep"
          /\ wake[t] = last_download_time + min_request_period

\* C4: the tokens taken from the semaphore are exactly those of the tasks
\* that have entered it and not finished; a finished task holds none,
\* whatever it finished with.
C4_TokenReleased ==
    download_semaphore + Cardinality(Holders) = max_concurrent_downloads

\* Every task has finished, one with retries exhausted and one with another
\* exception, and the semaphore is back at its initial value.
C4_Witness ==
    /\ Created # {}
    /\ Created = Finished
    /\ \E t \in Ids : result[t] = "RetryError"
    /\ \E t \in Ids : result[t] \in {"http404", "KeyError"}
    /\ download_semaphore = max_concurrent_downloads

\* C5: a fetch never makes a 16th attempt; its 15th retryable failure ends
\* it with RetryError and nothing else does; RetryError is not the 404 error,
\* and the stream neither yields nor skips it.
C5_ExhaustedAfter15 ==
    /\ \A t \in Ids :
          /\ attempt_number[t] <= 15
          /\ failures[t] = 15 => (phase[t] = "done" /\ result[t] = "RetryError")
          /\ result[t] = "RetryError" => (failures[t] = 15 /\ attempt_number[t] = 15)
          /\ result[t] = "RetryError" => t \notin Yielded
    /\ stage = "finished" => \A t \in Created : result[t] # "RetryError"

\* A fetch has failed 15 times and the stream has raised its RetryError.
C5_Witness ==
    /\ stage = "raised"
    /\ raised = "RetryError"
    /\ \E t \in Ids : result[t] = "RetryError" /\ attempt_number[t] = 15

\* C6: a fetch that returns a value after k retryable failures has made
\* exactly k + 1 attempts, and with fewer than 15 failures a fetch is never
\* given up.
C6_SucceedsAfterFailures ==
    \A t \in Ids :
        /\ (phase[t] = "done" /\ result[t] = "value")
              => attempt_number[t] = failures[t] + 1
        /\ failures[t] < 15 => result[t] # "RetryError"
        /\ (failures[t] < 15 /\ phase[t] \in {"request", "backoff"})
              => attempt_number[t] + (IF phase[t] = "backoff" THEN 1 ELSE 0) = failures[t] + 1

\* A fetch has returned a value on its 15th attempt.
C6_Witness ==
    \E t \in Ids :
        /\ phase[t] = "done"
        /\ result[t] = "value"
        /\ failures[t] = 14
        /\ attempt_number[t] = 15

\* C7: an attempt that ends with HTTP 404 ends the fetch with that error,
\* and a fetch that holds the 404 error makes no further attempt.
C7_NotFoundNeverRetried ==
    [][\A t \in Ids :
          /\ AttemptEnds(t, "http404")
                => (phase'[t] = "done" /\ result'[t] = "http404")
          /\ result[t] = "http404"
                => (result'[t] = "http404" /\ attempt_number'[t] = attempt_number[t])]_vars

\* A fetch got 404 after earlier retryable failures and holds the 404 error.
C7_Witness ==
    \E t \in Ids :
        /\ result[t] = "http404"
        /\ failures[t] >= 1
        /\ attempt_number[t] = failures[t] + 1

\* C8: a 404 never reaches the consumer, neither as a result nor as the
\* error that aborts the stream; when the stream ends normally, every fetch
\* that returned a value has been yielded.
C8_NotFoundDropped ==
    /\ \A t \in Yielded : result[t] = "value"
    /\ raised # "http404"
    /\ stage = "raised" => \E t \in Finished : result[t] \notin {"value", "http404"}
    /\ stage = "finished" => \A t \in Created : result[t] = "value" => t \in Yielded

\* The stream has ended normally; in its last batch one fetch got 404 and
\* another one was yielded.
C8_Witness ==
    /\ stage = "finished"
    /\ \E t, u \in Range(entry_tasks) :
          /\ result[t] = "http404"
          /\ result[u] = "value"
          /\ u \in Yielded

\* C9: visiting a task that failed with anything but 404 raises its error to
\* the consumer; once raised, the stream stays raised and yields nothing
\* more; a stream that ended normally had no such task.
C9_FatalAborts ==
    [][/\ \A t \in Ids :
             (ac = "iter" /\ t \in done /\ t \notin done'
                 /\ result[t] \notin {"value", "http404"})
                  => (stage' = "raised" /\ raised' = result[t] /\ yielded' = yielded)
       /\ stage = "raised"
             => (stage' = "raised" /\ raised' = raised /\ yielded' = yielded)
       /\ stage = "finished"
             => \A t \in Created : result[t] \in {"value", "http404"}]_vars

\* The stream raised RetryError while a fetch of the same batch that
\* returned a value was never yielded.
C9_Witness ==
    /\ stage = "raised"
    /\ raised = "RetryError"
    /\ \E u \in Range(entry_tasks) : result[u] = "value" /\ u \notin Yielded

\* C10: while the stream waits for a batch, a fetch of the batch that has
\* returned a value lets the wait return, whatever the other fetches of the
\* batch are doing.
C10_YieldedAsCompleted ==
    (ac = "wait" /\ \E t \in pending : phase[t] = "done" /\ result[t] = "value")
        => WaitReturns

\* Entry fetches that __await_concurrently has skipped as not found.
Dropped ==
    {t \in Created :
        /\ result[t] = "http404"
        /\ t \notin pending \cup done
        /\ (stage # "collect" \/ t \notin Range(entry_tasks))}

\* Entry fetches created and neither yielded nor dropped yet.
Outstanding == Created \ (Yielded \cup Dropped)

\* C11: in the entry stream the fetch tasks created and neither yielded nor
\* dropped are never more than one batch, and the first task of a batch is
\* created only when every task created before it was yielded or dropped.
C11_OneBatchAtATime ==
    /\ [](kind = "entries" => Cardinality(Outstanding) <= ENTRY_TASK_BATCH_SIZE)
    /\ [][kind = "entries" =>
            \A t \in Ids :
                (phase[t] = "none" /\ phase'[t] # "none" /\ entry_tasks = <<>>)
                    => Outstanding = {}]_vars

\* A batch was awaited to its end, one of its fetches yielded or dropped,
\* and the first task of the next batch exists.
C11_Witness ==
    /\ kind = "entries"
    /\ stage = "collect"
    /\ Cardinality(Outstanding) = ENTRY_TASK_BATCH_SIZE
    /\ Outstanding = Range(entry_tasks)
    /\ Yielded \cup Dropped # {}

\* C12: download_cofactors creates no fetch task for an identifier of
\* exclude or for one that is not a cofactor of the protein, never two for
\* one identifier, and, once its tasks are created, exactly one for every
\* cofactor of the protein that is not in exclude.
C12_ExactlyNonExcluded ==
    kind = "cofactors" =>
        \A t \in Ids :
            /\ dispatched[t] <= 1
            /\ (t \in exclude \/ t \notin cofactors) => dispatched[t] = 0
            /\ (stage # "collect" /\ t \in cofactors /\ t \notin exclude)
                  => dispatched[t] = 1

\* The stream has ended for a protein with an excluded and a non-excluded
\* cofactor, and exclude also holds an identifier the protein does not have.
C12_Witness ==
    /\ kind = "cofactors"
    /\ stage = "finished"
    /\ cofactors \cap exclude # {}
    /\ cofactors \ exclude # {}
    /\ exclude \ cofactors # {}
    /\ \E t \in cofactors \ exclude : t \in Yielded

\* The stored nodes that have the label of entry and its values of the
\* attributes of key.
WithKey(store, entry, key) ==
    {i \in 1..Len(store) :
        /\ store[i].label = entry.label
        /\ \A j \in 1..Len(key) : store[i].props[key[j]] = entry[key[j]]}

\* C13: an update_node call on a store that holds at most one node with the
\* label and key value of the call leaves exactly one such node, so any
\* number of calls with one key value leave one node.
C13_OneNodePerKey ==
    [][\A entry \in NodeObjects, key \in Keys :
          (UpdateNode(entry, key) /\ Cardinality(WithKey(nodes, entry, key)) <= 1)
              => Cardinality(WithKey(nodes', entry, key)) = 1]_vars

\* C14: after an update_node call, every stored node with the label and key
\* value of the call has the call's value of every attribute that is neither
\* a key attribute nor the uuid.
C14_LastWriteWins ==
    last_call # NoCall =>
        \A i \in WithKey(nodes, last_call.entry, last_call.key) :
            \A f \in Fields \ (Range(last_call.key) \cup {"uuid"}) :
                nodes[i].props[f] = last_call.entry[f]

\* C15: the map that the latest update_node call has written holds neither
\* the label nor an attribute of the key, and the nodes the call was bound
\* to have, for every key attribute, the value passed as the parameter of
\* the match.
C15_KeyOnlyAsParameter ==
    last_call # NoCall =>
        /\ "label" \notin DOMAIN SetMap(last_call.entry, last_call.key)
        /\ Range(last_call.key) \cap DOMAIN SetMap(last_call.entry, last_call.key) = {}
        /\ \A i \in last_bound :
              \A j \in 1..Len(last_call.key) :
                  nodes[i].props[last_call.key[j]]
                      = KeySubstitutions(last_call.entry, last_call.key)[j]

\* C16: no step removes a stored node or changes its uuid.
C16_UuidImmutable ==
    [][\A i \in 1..Len(nodes) :
          /\ i <= Len(nodes')
          /\ nodes'[i].props["uuid"] = nodes[i].props["uuid"]]_vars

\* The latest call was an upsert by a natural key, and a node stored before
\* it has the label and id of the call's object and another uuid.
C16_Witness ==
    /\ last_call # NoCall
    /\ "uuid" \notin Range(last_call.key)
    /\ \E i \in 1..Len(nodes) :
          /\ i \notin last_bound
          /\ nodes[i].label = last_call.entry.label
          /\ nodes[i].props["id"] = last_call.entry.id
          /\ nodes[i].props["entry_id"] = last_call.entry.entry_id
          /\ nodes[i].props["uuid"] # last_call.entry.uuid
          /\ nodes[i].props["uuid"] # Absent

\* C17: a create_relationship call adds exactly one edge of its type between
\* every pair of stored nodes it matches, and changes no other edge count
\* (a call that matches no pair changes nothing).
C17_NotIdempotent ==
    [][(nodes' = nodes /\ edges' # edges) =>
          \A e1, e2 \in NodeEnds, relation \in RelationTypes :
              CreateRelationship(e1, e2, relation)
                  => LET matched == MatchPairs(nodes, e1, e2)
                     IN \A a, b \in 1..Len(nodes), type \in RelationTypes :
                           CopiesIn(Edge(a, b, type), edges')
                               = CopiesIn(Edge(a, b, type), edges)
                                   + (IF type = relation /\ <<a, b>> \in matched
                                      THEN 1 ELSE 0)]_vars

\* Two calls with the same arguments have left two edges between two
\* distinct stored nodes.
C17_Witness ==
    \E a, b \in 1..Len(nodes), type \in RelationTypes :
        /\ a # b
        /\ CopiesIn(Edge(a, b, type), edges) = 2
        /\ BagCardinality(edges) = 2

\* The labels and keys that two different proteins of the run refer to.
SharedRefs ==
    {<<r.label, r.id>> : r \in {x \in refs : \E y \in refs :
                                    /\ y.label = x.label
                                    /\ y.id = x.id
                                    /\ y.prot # x.prot}}

\* C18: in one run of form_kg, update_node is called at most once for any
\* label with a set of added keys (host organism, source organism,
\* database, annotation, drug) and natural key.
C18_UpsertedOncePerRun ==
    \A c \in BagToSet(upsert_calls) :
        c.label \in DedupLabels => CopiesIn(c, upsert_calls) = 1

\* The run has ended; for each of the five labels two proteins referred to
\* the same key, and the node was upserted once.
C18_Witness ==
    /\ pc = "done"
    /\ \A l \in DedupLabels :
          \E s \in SharedRefs :
              /\ s[1] = l
              /\ CopiesIn([label |-> l, entry_id |-> Absent, id |-> <<s[2]>>],
                           upsert_calls) = 1

\* C19: in one run of form_kg, create_relationship is called at most once
\* with any source uuid, target uuid and relationship type.
C19_RelatedOncePerRun ==
    \A c \in BagToSet(rel_calls) : CopiesIn(c, rel_calls) = 1

\* The run has ended after relationships of every type were created, and
\* two proteins referred to the same key.
C19_Witness ==
    /\ pc = "done"
    /\ SharedRefs # {}
    /\ \A l \in Range(ListLabels) : \E c \in BagToSet(rel_calls) : c.type = RelationOf[l]
    /\ \A t \in {"HAS_PROTEIN", "HAS_COFACTOR", "TARGET_TO"} :
          \E c \in BagToSet(rel_calls) : c.type = t
    /\ Cardinality({c \in BagToSet(rel_calls) : c.type = "HAS_PROTEIN"}) = 2

\* The stored nodes with that label and natural key.
StoredAs(label, id) ==
    {b \in 1..Len(nodes) : nodes[b].label = label /\ nodes[b].props["id"] = <<id>>}

\* The edges that end at the stored node b.
Incoming(b) == {e \in BagToSet(edges) : e.dst = b}

Upserted(store, uuid) ==
    \E a \in 1..Len(store) : store[a].props["uuid"] = CypherValue(UuidLiteral(uuid))

\* C21: when form_kg calls create_relationship(source, target, T), the
\* update_node calls for source and for target have completed: both nodes
\* are in the store before the call.
C21_RelatedAfterUpserts ==
    [][\A c \in BagToSet(rel_calls') :
          CopiesIn(c, rel_calls') > CopiesIn(c, rel_calls)
              => Upserted(nodes, c.src) /\ Upserted(nodes, c.dst)]_vars

\* The run has ended after it related an entry to a protein, a protein to
\* an annotation and to a drug, and the drug to its target.
C21_Witness ==
    /\ pc = "done"
    /\ \A t \in {"HAS_PROTEIN", "HAS_ANNOTATION", "HAS_COFACTOR", "TARGET_TO"} :
          \E c \in BagToSet(rel_calls) :
              c.type = t /\ Upserted(nodes, c.src) /\ Upserted(nodes, c.dst)

BackoffSleep(t) == WaitExponential(attempt_number[t])

\* C30: a task that goes to sleep after its k-th failed attempt sleeps
\* min(30, 2^(k-1)) seconds, which is at least 1 and at most 30 and not
\* less than the sleep after its attempt before.
C30_BackoffSchedule ==
    [][\A t \in Ids :
          (phase[t] = "request" /\ phase'[t] = "backoff") =>
              /\ failures'[t] = attempt_number'[t]
              /\ BackoffSleep(t)' = IF 2 ^ (failures'[t] - 1) <= 30
                                        THEN 2 ^ (failures'[t] - 1) ELSE 30
              /\ BackoffSleep(t)' >= 1
              /\ BackoffSleep(t)' <= 30
              /\ failures'[t] > 1
                    => BackoffSleep(t)' >= WaitExponential(attempt_number'[t] - 1)]_vars

\* A task sleeps after its fourteenth failed attempt, with the wait at its
\* cap since the sixth.
C30_Witness ==
    \E t \in Ids :
        /\ phase[t] = "backoff"
        /\ failures[t] = StopAfterAttempt - 1
        /\ BackoffSleep(t) = 30
        /\ WaitExponential(5) = 16
        /\ WaitExponential(6) = 30

\* The stored nodes within k relationships of the stored node a, whatever
\* their direction.
RECURSIVE Ball(_, _, _)
Ball(es, a, k) ==
    IF k = 0 THEN {a}
    ELSE LET inner == Ball(es, a, k - 1)
         IN inner \cup {r.dst : r \in {x \in BagToSet(es) : x.src \in inner}}
                  \cup {r.src : r \in {x \in BagToSet(es) : x.dst \in inner}}

\* The graph distance between the stored nodes with these uuids: the
\* number of hops of a shortest path, -1 when no path joins them.
Hops(start, end) ==
    LET a == CHOOSE x \in UuidMatches(nodes, start) : TRUE
        b == CHOOSE x \in UuidMatches(nodes, end) : TRUE
    IN IF b \notin Ball(edges, a, Len(nodes)) THEN -1
       ELSE CHOOSE h \in 0..Len(nodes) :
               /\ b \in Ball(edges, a, h)
               /\ h > 0 => b \notin Ball(edges, a, h - 1)

\* The list is a path of the store from start to end.
IsPath(path, start, end) ==
    /\ path[1].uuid = start
    /\ path[Len(path)].uuid = end
    /\ \A i \in 1..(Len(path) - 1) : Hops(path[i].uuid, path[i + 1].uuid) = 1

\* C26: get_path(start, end, max_length) between two nodes at distance
\* h >= 1 returns the h+1 nodes of a path from start to end when
\* h < max_length and an empty list when h > max_length; it returns an
\* empty list when no path joins them.
C26_PathWithinLength ==
    reply.op = "get_path" =>
        LET h == Hops(reply.args[1], reply.args[2])
            max_length == reply.args[3]
        IN /\ (h >= 1 /\ h < max_length) =>
                  /\ Len(reply.result) = h + 1
                  /\ IsPath(reply.result, reply.args[1], reply.args[2])
           /\ h > max_length => reply.result = <<>>
           /\ h = -1 => reply.result = <<>>

\* On a-m-b the query with max_length = 3 has returned the three nodes.
C26_Witness ==
    /\ reply.op = "get_path"
    /\ Hops(reply.args[1], reply.args[2]) = 2
    /\ reply.args[3] = 3
    /\ Len(reply.result) = 3
    /\ IsPath(reply.result, reply.args[1], reply.args[2])

\* C27: get_path returns the path whenever its number of hops is within
\* max_length, the case of exactly max_length hops included.
C27_BoundaryIncluded ==
    reply.op = "get_path" =>
        LET h == Hops(reply.args[1], reply.args[2])
        IN (h >= 1 /\ h <= reply.args[3]) =>
               /\ Len(reply.result) = h + 1
               /\ IsPath(reply.result, reply.args[1], reply.args[2])

\* The stored nodes at graph distance exactly 1 of the node with that uuid,
\* converted.
AtDistanceOne(id) ==
    {ConvertNode(nodes[c]) :
        c \in {x \in 1..Len(nodes) : Hops(id, nodes[x].props["uuid"]) = 1}}

\* C28: get_neighbors(id) returns, each once, exactly the nodes at graph
\* distance 1 of the given node, whatever the direction of the
\* relationship, and get_annotated(id) exactly those of them with the
\* label PROTEIN.
C28_NeighborsAtDistanceOne ==
    /\ reply.op = "get_neighbors" =>
          /\ Range(reply.result) = AtDistanceOne(reply.args[1])
          /\ Len(reply.result) = Cardinality(AtDistanceOne(reply.args[1]))
    /\ reply.op = "get_annotated" =>
          /\ Range(reply.result)
                = {n \in AtDistanceOne(reply.args[1]) : n.label = "PROTEIN"}
          /\ Len(reply.result)
                = Cardinality({n \in AtDistanceOne(reply.args[1]) : n.label = "PROTEIN"})

\* get_neighbors has returned a node whose relationship points at the
\* given node, and has left out a node two hops away.
C28_Witness ==
    /\ reply.op = "get_neighbors"
    /\ Len(reply.result) = 1
    /\ \E r \in BagToSet(edges) :
          /\ nodes[r.dst].props["uuid"] = reply.args[1]
          /\ nodes[r.src].props["uuid"] = reply.result[1].uuid
    /\ \E o \in QueryIds : Hops(reply.args[1], o) = 2

\* C29: two different values never have the same literal.
C29_Lossless ==
    literals # <<>> => (values[1] # values[2] => literals[1] # literals[2])

\* C24: GraphDatabase.driver is called at most once, and all the callers of
\* get_driver have received the same driver.
C24_OneDriver ==
    /\ drivers_created <= 1
    /\ \A t, u \in Threads :
          (worker[t].got # 0 /\ worker[u].got # 0) => worker[t].got = worker[u].got

\* C25: aiohttp.ClientSession is called at most once, and all the fetches
\* use the same session.
C25_OneSession ==
    /\ sessions_created <= 1
    /\ \A t, u \in Tasks :
          (fetcher[t].got # 0 /\ fetcher[u].got # 0) => fetcher[t].got = fetcher[u].got

\* Two download tasks have fetched, one of them while the other was waiting
\* for its response, and one session exists.
C25_Witness ==
    /\ sessions_created = 1
    /\ \E t, u \in Tasks :
          /\ t # u
          /\ fetcher[t].pc = "request"
          /\ fetcher[u].pc = "done"
          /\ fetcher[t].got = g_session
          /\ fetcher[u].got = g_session

\* C23: a store call in progress runs on a worker thread, and every
\* download task that is ready can be run by the event loop meanwhile.
C23_StoreCallsOffLoop ==
    store_call # NoStoreOp =>
        /\ store_call.thread = "worker"
        /\ \A t \in Tasks : Ready(t) => ENABLED RunDownloadTask(t)

\* C31: once the stream has raised a fatal error, no fetch it still waited
\* for holds a token of the semaphore or starts a request.
C31_PendingAborted ==
    [][/\ stage' = "raised" =>
             \A t \in pending' : phase'[t] \notin {"rate", "sleep", "request", "backoff"}
       /\ stage = "raised" =>
             \A t \in pending : phase'[t] = "request" => phase[t] = "request"]_vars

\* C36: every request attempt, the first of a fetch or a retry, starts at
\* least min_request_period after the latest rate-limited dispatch.
C36_EveryAttemptRateLimited ==
    [][\A t \in Ids :
          (phase[t] # "request" /\ phase'[t] = "request")
              => now - last_download_time >= min_request_period]_vars

\* C37: no identifier is yielded twice and a finished task still to be
\* visited has not been yielded; when __await_concurrently is exhausted, the
\* tasks of the batch that were yielded are exactly those that returned a
\* value, so none that failed with 404 is among them.
C37_EachSuccessOnce ==
    /\ \A i, j \in 1..Len(yielded) : yielded[i] = yielded[j] => i = j
    /\ \A t \in done : t \notin Yielded
    /\ ac = "end" => \A t \in Range(entry_tasks) : t \in Yielded <=> result[t] = "value"

\* __await_concurrently is exhausted for a batch of three: the task created
\* last was yielded first, the one created first after it, and the one in
\* between failed with 404.
C37_Witness ==
    /\ ac = "end"
    /\ entry_tasks = <<1, 2, 3>>
    /\ yielded = <<3, 1>>
    /\ result[2] = "http404"

\* C39: when form_kg starts the cofactor stream of a protein, the stream
\* fetches only cofactors of that protein, and none that a protein
\* processed earlier in the run has among its cofactors, whether that fetch
\* gave a drug or was dropped as not found.
C39_CofactorFetchedOnce ==
    [][(pc # "cofactors" /\ pc' = "cofactors") =>
          /\ drugs_left' \subseteq prot_entity.cofactors
          /\ \A r \in refs :
                (r.label = "DRUG" /\ r.prot # prot_entity.node.uuid)
                    => r.id \notin drugs_left']_vars

\* The cofactor stream of the second protein has nothing to fetch: its only
\* cofactor is one of the first protein, whose fetch was dropped as not
\* found, so that no drug was ever stored.
C39_Witness ==
    /\ pc = "cofactors"
    /\ drugs_left = {}
    /\ prot_entity.cofactors = {"d"}
    /\ \E r \in refs : r.label = "DRUG" /\ r.id = "d" /\ r.prot # prot_entity.node.uuid
    /\ \A c \in BagToSet(upsert_calls) : c.label # "DRUG"

\* C35: the literal of a string is one well-formed quoted literal: it opens
\* with a quote, and, read as the database reads it (a backslash takes the
\* character after it with it), the first quote that closes it is its last
\* character.
C35_DelimiterSafe ==
    LET RECURSIVE Closes(_, _)
        Closes(lit, i) ==
            IF i > Len(lit) THEN 0
            ELSE IF lit[i] = "\\" THEN Closes(lit, i + 2)
            ELSE IF lit[i] = Quote THEN i
            ELSE Closes(lit, i + 1)
        WellFormed(lit) ==
            /\ Len(lit) >= 2
            /\ lit[1] = Quote
            /\ Closes(lit, 2) = Len(lit)
    IN literals # <<>> =>
          \A k \in 1..2 : values[k].type = "str" => WellFormed(literals[k])

C33_CitationsFiltered ==
    (entry_node.outcome # "none"
        /\ entry_json.rcsb_entry_container_identifiers.type # "NoneType")
        => /\ entry_node.outcome = "EntryNode"
           /\ LET cs == IF entry_json.citation.type = "NoneType"
                        THEN <<>>
                        ELSE entry_json.citation.v
                  kept == {i \in 1..Len(cs) :
                             cs[i].title.type = "str" /\ cs[i].authors.type = "list"}
                  pubs == entry_node.publications
              IN /\ Len(pubs) = Cardinality(kept)
                 /\ \A i \in kept :
                       LET k == Cardinality({j \in kept : j <= i})
                       IN /\ pubs[k].title = cs[i].title
                          /\ pubs[k].authors = cs[i].authors
                          /\ pubs[k].year.type = cs[i].year.type

\* A response of two citations, the first without authors, the second
\* complete and without a year: the EntryNode holds the second only.
C33_Witness ==
    /\ entry_node.outcome = "EntryNode"
    /\ entry_json.citation.type = "list"
    /\ Len(entry_json.citation.v) = 2
    /\ entry_json.citation.v[1].title.type = "str"
    /\ entry_json.citation.v[1].authors.type = "NoneType"
    /\ entry_json.citation.v[2].year.type = "NoneType"
    /\ Len(entry_node.publications) = 1
    /\ entry_node.publications[1].title = entry_json.citation.v[2].title

\* C34: when main has ended and was given a start-from identifier of the
\* list, the identifiers from that one on were fetched and upserted and no
\* identifier before it was.
C34_StartsAtGivenEntry ==
    (main_pc \notin {"start", "indices", "form_kg"}
        /\ cli_args.start_from.type = "str"
        /\ cli_args.start_from.v \in Range(EntryList))
        => LET x == CHOOSE p \in 1..Len(EntryList) : EntryList[p] = cli_args.start_from.v
           IN /\ \A p \in 1..(x - 1) : dispatched[EntryList[p]] = 0
              /\ \A p \in x..Len(EntryList) : dispatched[EntryList[p]] >= 1
              /\ BagCardinality(upsert_calls) >= Len(EntryList) - x + 1

\* C40: main deletes from the store only when the clear flag is given, and
\* then as the first statement of the run, so that the store is empty when
\* the first index is created; without the flag every step keeps every
\* node and every relationship.
C40_ClearOnlyOnFlag ==
    [][/\ \A k \in 1..Len(store_log') :
             store_log'[k].op = "delete_all" => (k = 1 /\ cli_args.clear)
       /\ (cli_args.clear /\ store_log = <<>> /\ store_log' # <<>>)
             => (store_log'[1].op = "delete_all" /\ nodes' = <<>> /\ edges' = EmptyBag)
       /\ (store_log # <<>> /\ store_log[1].op = "delete_all")
             => (nodes = <<>> /\ edges = EmptyBag)
       /\ ~cli_args.clear
             => /\ Len(nodes') >= Len(nodes)
                /\ SubSeq(nodes', 1, Len(nodes)) = nodes
                /\ edges \sqsubseteq edges']_vars

\* The command was given the clear flag on a database that held nodes: the
\* database is empty and the first index has been created after the delete.
C40_Witness ==
    /\ cli_args.clear
    /\ last_call # NoCall
    /\ nodes = <<>>
    /\ Len(store_log) >= 2
    /\ store_log[1].op = "delete_all"
    /\ store_log[2].op = "create_index"

=============================================================================
